---- MODULE Spec2Model ----
(***************************************************************************)
(* Reactive streams kernel of satori-video-sdk-cpp (src/src/streams_impl.h) *)
(* as a call-stack machine.  Every object of a pipeline (source            *)
(* subscription, operator instances, flat_map's forwarding subscribers and *)
(* the terminal subscriber) keeps its C++ fields; a frame of `stack` is a  *)
(* method running on one object, and each action executes the top frame up *)
(* to its next outgoing virtual call.  Calls are synchronous, so re-entry  *)
(* (request or cancel from inside next) is a frame pushed on top of the    *)
(* frames of the methods still running.                                    *)
(***************************************************************************)
EXTENDS Integers, Sequences, FiniteSets, TLC

VARIABLES
  cfg,      \* the pipeline under test: source, operator chain, inner publisher,
            \* and the kind of subscriber
  srcs,     \* source subscriptions: 0 is the root, k >= 1 the k-th inner one
  ops,      \* operator instances, by position in the chain
  fwds,     \* flat_map's fwd_sub objects, by the item that created them
  stack,    \* the C++ call stack
  status,   \* "new", "run", "abort" (failed assertion), "crash" (invalid memory
            \* access), "second" (a second subscription exists), "exit"
            \* (exit(1) was called)
  log,      \* events delivered to the terminal subscriber, in order
  sink,     \* the terminal subscriber's own bookkeeping
  pushed,   \* items the producer has pushed into the async source so far
  uaf,      \* a method has run on an object after its `delete this`
  pub,      \* the root publisher: _subscribed, and the subscriptions it has made
  client,   \* the bus client (src/src/rtmclient.cpp, secure_client)
  bot,      \* the bot runtime (src/src/video_bot.cpp, bot_environment)
  pool,     \* the pool job controller (src/src/pool_controller.h)
  file,     \* the file source pipeline of src/test/file_source_test.cpp
  asub,     \* an async subscription whose producer and subscriber run on
            \* two threads
  mkv       \* the matroska sink (src/src/mkv_sink.cpp, mkv_sink_impl)

\* The streams kernel, and the components built around it.  Each component is
\* exercised by a specification of its own; the others stand still meanwhile.
kernel == <<cfg, srcs, ops, fwds, stack, status, log, sink, pushed, uaf, pub>>
services == <<client, bot, pool, file, asub, mkv>>
vars == <<cfg, srcs, ops, fwds, stack, status, log, sink, pushed, uaf, pub,
          client, bot, pool, file, asub, mkv>>

\* ---------------------------------------------------------------- bounds
MaxLen == 3      \* longest `of` list / number of async pushes / range width
MaxTake == 3     \* largest take(n)
MaxDemand == 3   \* the terminal subscriber requests at most this many in total
MaxInnerLen == 2 \* longest list returned by flat_map's function

\* No subscription is ever owed more than this unless a loop is spinning on a
\* dead object; the request actions stop there.
DemandCap == MaxDemand + MaxLen

Min(a, b) == IF a < b THEN a ELSE b

\* ------------------------------------------------------------ pipelines
\* of(<<1..L>>) is the generator from 0 to L; range(a, b) the one from a to b,
\* range(1, 0) being the range whose from is past its to; "fail" is
\* generate() with a gen_fn that emits like of(<<1..L>>) and then calls
\* on_error where of calls on_complete.
Sources ==
  [kind : {"of", "fail"}, from : {0}, to : 0..MaxLen]
    \cup [kind : {"range"}, from : {1}, to : 0..(MaxLen + 1)]
    \cup [kind : {"empty", "error", "async"}, from : {0}, to : {0}]

OpMap == [k |-> "map", n |-> 0]
OpFin == [k |-> "do_finally", n |-> 0]
OpFlat == [k |-> "flat_map", n |-> 0]
OpTake(n) == [k |-> "take", n |-> n]
Takes == {OpTake(n) : n \in 0..MaxTake}

\* source >> op1 >> op2: the chains the claims speak of.
Chains ==
  {<<>>, <<OpMap>>, <<OpFin>>, <<OpFlat>>}
    \cup {<<t>> : t \in Takes}
    \cup {<<OpMap, t>> : t \in Takes}
    \cup {<<OpFin, t>> : t \in Takes}
    \cup {<<t, OpFin>> : t \in Takes}
    \cup {<<OpFlat, t>> : t \in Takes}
    \cup {<<OpFlat, OpFin>>, <<OpMap, OpFlat>>}

HasFlat(chain) == \E s \in 1..Len(chain) : chain[s].k = "flat_map"

\* flat_map's function: x => of(<<x, .., x>>) of length ilen, x => empty(),
\* x => error(x), x => async(init).
Inners ==
  [kind : {"of"}, len : 0..MaxInnerLen]
    \cup [kind : {"empty", "error", "async"}, len : {0}]

NoInner == [kind |-> "none", len |-> 0]

\* The terminal subscriber: "process" is the collector publisher_impl::process
\* subscribes (request(1) in on_subscribe and after every item, delete this on
\* complete and error); "mkv" is mkv_sink_impl (src/src/mkv_sink.cpp), which
\* pulls the same way; "any" is a subscriber free to request and cancel.
Subscribers == {"any", "process", "mkv"}

\* the subscribers that pull one item at a time
PullsOne(sub) == sub \in {"process", "mkv"}

Configs ==
  {[src |-> s, chain |-> c, inner |-> i, sub |-> u] :
     s \in Sources, c \in {ch \in Chains : ~HasFlat(ch)}, i \in {NoInner},
     u \in Subscribers}
    \cup {[src |-> s, chain |-> c, inner |-> i, sub |-> u] :
            s \in Sources, c \in {ch \in Chains : HasFlat(ch)}, i \in Inners,
            u \in Subscribers}

K == Len(cfg.chain)
FM == CHOOSE s \in 1..K : cfg.chain[s].k = "flat_map"
InnerIds == 1..MaxLen

\* ---------------------------------------------------------- object refs
SinkRef == <<"sink", 0>>
PubRef == <<"pub", 0>>
SrcRef(j) == <<"src", j>>
OpRef(s) == <<"op", s>>
FwdRef(k) == <<"fwd", k>>

\* op_publisher::subscribe wires instance s between its source and its sink.
Down(s) == IF s < K THEN OpRef(s + 1) ELSE SinkRef
Up(s) == IF s > 1 THEN OpRef(s - 1) ELSE SrcRef(0)
SrcSink(j) == IF j = 0 THEN (IF K = 0 THEN SinkRef ELSE OpRef(1)) ELSE FwdRef(j)

Alive(o) ==
  CASE o[1] = "op" -> ops[o[2]].alive
    [] o[1] = "src" -> srcs[o[2]].alive
    [] o[1] = "fwd" -> fwds[o[2]].alive
    [] o[1] = "pub" -> TRUE
    [] OTHER -> sink.alive

\* --------------------------------------------------------------- frames
Fr(o, m, a) == [o |-> o, m |-> m, pc |-> 0, a |-> a, n |-> 0, i |-> 0]

Running == status = "run" /\ stack # <<>>
Idle == status = "run" /\ stack = <<>>
Top == stack[Len(stack)]
Rest == SubSeq(stack, 1, Len(stack) - 1)

\* return from the running method
Return == stack' = Rest
\* the running method ends with the call f (nothing of it runs afterwards)
TailCall(f) == stack' = Rest \o <<f>>
\* the running method calls f and resumes at pc
CallThen(pc, f) == stack' = Rest \o <<[Top EXCEPT !.pc = pc], f>>
Goto(pc) == stack' = Rest \o <<[Top EXCEPT !.pc = pc]>>

\* Every step reads or writes fields of its object: after `delete this` that
\* is a use of freed memory.  The step itself models the build in which the
\* freed memory still holds the object; UseAfterFree models the crash.
Touch(o) == uaf' = (uaf \/ ~Alive(o))


\* ------------------------------------------------------- object records
NoSrc ==
  [kind |-> "none", alive |-> FALSE, active |-> FALSE, in_drain |-> FALSE,
   outstanding |-> 0, pos |-> 0, to |-> 0, ncancel |-> 0, lateReq |-> FALSE]

\* generator_publisher::sub as constructed: _active{true}, _in_drain{false},
\* _outstanding{0}, _state = create_fn().
NewGen(from, to) ==
  [NoSrc EXCEPT !.kind = "gen", !.alive = TRUE, !.active = TRUE, !.pos = from, !.to = to]

\* What a member that no constructor initialises may hold: `new sub(s)`
\* default-initialises `std::atomic<long> outstanding`, which before C++20
\* leaves it with whatever the memory held.
Indeterminate == {-1, 0, 1}

\* async_publisher_impl::sub as constructed: `explicit sub(subscriber<T> &sink)
\* : _sink(sink) {}`, the counter holding v.
NewAsync(v) ==
  [NoSrc EXCEPT !.kind = "async", !.alive = TRUE, !.active = TRUE, !.outstanding = v]

\* An operator instance as its constructor leaves it.  term, late, fwdreq,
\* fcalls, overlap, erx (the message of the error it was sent) and ncancel
\* (the calls of its cancel()) observe the instance; the code does not read
\* them.
NewOp(d) ==
  [alive |-> TRUE, src |-> FALSE, remaining |-> d.n, outstanding |-> 0,
   in_drain |-> FALSE, active |-> TRUE, source_complete |-> FALSE,
   requested_next |-> FALSE, fwd_sub |-> 0,
   term |-> 0, late |-> FALSE, fwdreq |-> 0, fcalls |-> 0, overlap |-> FALSE,
   erx |-> 0, ncancel |-> 0]

NoFwd ==
  [alive |-> FALSE, made |-> FALSE, src |-> FALSE, item |-> 0,
   term |-> 0, late |-> FALSE, done |-> FALSE, erx |-> 0]

Ev(e, v) == [e |-> e, v |-> v]

\* ------------------------------------------------------------ components
\* bounds of the components around the kernel
MaxChannels == 2   \* channels the bus client is asked to subscribe to
MaxRequests == 3   \* subscribe/unsubscribe requests one client sends

Channels == 1..MaxChannels

\* No record in _subscriptions; pending 0 stands for UINT64_MAX.
NoSub == [status |-> "None", pending |-> 0]

\* secure_client as constructed: _client_state{Stopped}, _request_id{0}, an
\* empty _subscriptions.  ndebug is the build (BOOST_VERIFY evaluates its
\* expression in every build and aborts only when assertions are compiled
\* in); reading: an async_read is pending; aborting: its handler is queued
\* with operation_aborted; open: the socket is connected; wire: the requests
\* on their way to the server; srv: the channels the server holds a
\* subscription of this connection for; errors: the client_error values
\* passed to error_callbacks::on_error so far; exit: how the process ended, if
\* it did; call, ch and ok: the last method that ran, the channel it was
\* about and, for the handler of a reply, whether the reply was ok
\* (observation only).
NewClient ==
  [ndebug |-> FALSE, state |-> "Stopped", reading |-> FALSE, aborting |-> FALSE,
   open |-> FALSE, subs |-> [c \in Channels |-> NoSub], request_id |-> 0,
   wire |-> <<>>, srv |-> {}, errors |-> <<>>, exit |-> "none", call |-> "none",
   ch |-> 0, ok |-> TRUE]

\* bounds of the bot runtime
MaxFrames == 2     \* frame messages (and metadata messages) the bot receives
MaxMessages == 2   \* messages one image callback stores

\* bot_environment before main(): no decoder, no context.  started: main()
\* has reached the reactor; incb: the image callback is running; buffer:
\* _bot_context->message_buffer; published: the calls of _client->publish, in
\* order.  kinds (every message stored so far), rx, meta, fed (messages
\* received and frames given to the decoder), frames (image callback calls)
\* and ctrl (control callback calls) observe the runtime.
NewBot ==
  [started |-> FALSE, exit |-> "none", decoder |-> FALSE, incb |-> FALSE,
   buffer |-> <<>>, published |-> <<>>, kinds |-> <<>>,
   rx |-> 0, meta |-> 0, fed |-> 0, frames |-> 0, ctrl |-> 0]
\* bounds of the pool
MaxJobs == 3       \* job ids the pool channel speaks of
MaxCapacity == 2   \* largest max_streams_capacity

\* pool_job_controller as constructed: nothing running.  logged (the jobs
\* whose start_job was ignored and logged) and call (the last directive)
\* observe the controller.
NewPool ==
  [max_streams_capacity |-> 0, running |-> {}, shutdown |-> FALSE,
   logged |-> {}, call |-> "none"]
\* bounds of the file source
MaxPackets == 3    \* video packets in the file
MaxSpan == 3       \* widest id range of one frame

\* The pipeline before anything was read.  n: the frames the file holds;
\* repeat: repeat_if(0, is_metadata) is part of the pipeline; pos: packets
\* read; i2: where the last frame's id ends; last: the item repeat_if keeps;
\* out: what the subscriber has seen; done: it has seen complete.
NewFile ==
  [n |-> 0, repeat |-> FALSE, pos |-> 0, i2 |-> 0, last |-> <<>>,
   out |-> <<>>, done |-> FALSE]

\* async_publisher_impl::sub with its two callers on threads of their own:
\* outstanding is the atomic counter; pc and old are the producer's place in
\* on_next and the value its fetch_sub returned; requested, pushed and
\* delivered count the demand the subscriber has asked for, the producer's
\* calls of on_next and the items handed to the subscriber.
NewAsub ==
  [outstanding |-> 0, pc |-> "idle", old |-> 0, requested |-> 0, pushed |-> 0,
   delivered |-> 0]

MaxSinkPackets == 4    \* packets the mkv sink is given

\* mkv_sink_impl: index is _video_stream_index, streams the streams created in
\* the format context, opened whether _format_context->pb is set, written
\* what has been written to the file, requests the calls of _src->request(1),
\* metas and frames the packets of either kind on_next was called with,
\* dropped the frames on_encoded_frame returned from without writing; ndebug
\* is the build, exit how the process ended.
NewMkv ==
  [ndebug |-> FALSE, subscribed |-> FALSE, index |-> -1, streams |-> 0,
   opened |-> FALSE, written |-> <<>>, requests |-> 0, metas |-> 0,
   frames |-> 0, dropped |-> 0, deleted |-> FALSE, exit |-> "none",
   call |-> "none"]

ServicesInit ==
  /\ client = NewClient
  /\ bot = NewBot
  /\ pool = NewPool
  /\ file = NewFile
  /\ asub = NewAsub
  /\ mkv = NewMkv

KernelInit ==
  /\ cfg \in Configs
  /\ srcs = [j \in 0..MaxLen |-> NoSrc]
  /\ ops = [s \in 1..Len(cfg.chain) |-> [NewOp(cfg.chain[s]) EXCEPT !.alive = FALSE]]
  /\ fwds = [k \in InnerIds |-> NoFwd]
  /\ stack = <<>>
  /\ status = "new"
  /\ log = <<>>
  /\ sink = [alive |-> TRUE, requested |-> 0, cancelled |-> FALSE, cancelAt |-> 0,
             reentered |-> FALSE]
  /\ pushed = 0
  /\ uaf = FALSE
  /\ pub = [subscribed |-> FALSE, subs |-> 0]

Init == KernelInit /\ ServicesInit

\* The kernel while a specification exercises another component: one
\* pipeline, never subscribed.
ParkedConfig ==
  [src |-> [kind |-> "empty", from |-> 0, to |-> 0], chain |-> <<>>,
   inner |-> NoInner, sub |-> "any"]
KernelParked == KernelInit /\ cfg = ParkedConfig

\* ------------------------------------------------- values and messages
\* of(<<1, .., L>>) holds idx + 1 at idx; range emits *t itself; the inner
\* list of item x holds x everywhere.
GenValue(j) ==
  IF j = 0
    THEN (IF cfg.src.kind = "range" THEN srcs[0].pos ELSE srcs[0].pos + 1)
    ELSE fwds[j].item

\* the function given to map()
Fn(x) == x + x

\* the message of publishers::error(...) at the root
RootError == 1

\* the message the failing gen_fn passes to on_error
GenError == 2

\* -------------------------------------------------------------- subscribe
\* the publishers whose subscribe() does `new sub`, and those that are a
\* generator_publisher (with its _subscribed flag)
MakesGenerator(kind) == kind \in {"of", "range", "fail"}
MakesSubscription(kind) == MakesGenerator(kind) \/ kind = "async"

\* publisher::subscribe on the composed publisher: every op_publisher creates
\* its instance and subscribes it to its source; the root then answers.
Subscribe ==
  /\ status = "new"
  /\ status' = "run"
  /\ ops' = [s \in 1..K |-> NewOp(cfg.chain[s])]
  /\ \E v \in Indeterminate :
       srcs' = [srcs EXCEPT ![0] =
         CASE cfg.src.kind \in {"of", "range", "fail"} -> NewGen(cfg.src.from, cfg.src.to)
           [] cfg.src.kind = "async" -> NewAsync(v)
           [] OTHER -> NoSrc]
  /\ stack' = <<Fr(SrcSink(0),
                   CASE cfg.src.kind = "empty" -> "on_complete"
                     [] cfg.src.kind = "error" -> "on_error"
                     [] OTHER -> "on_subscribe",
                   IF cfg.src.kind = "error" THEN RootError ELSE 0)>>
  /\ pub' = [subscribed |-> MakesGenerator(cfg.src.kind),
             subs |-> IF MakesSubscription(cfg.src.kind) THEN 1 ELSE 0]
  /\ UNCHANGED <<services, cfg, fwds, log, sink, pushed, uaf>>

\* subscribe() is called on the publisher a second time, between two calls of
\* the first subscriber's pipeline
SubscribeAgain ==
  /\ Idle
  /\ stack' = <<Fr(PubRef, "subscribe", 0)>>
  /\ UNCHANGED <<services, cfg, pub, srcs, ops, fwds, status, log, sink, pushed, uaf>>

\* The root publisher's subscribe() on that second call, assertions compiled
\* out: generator_publisher and async_publisher_impl make a new sub and hand it
\* to the new subscriber; empty_publisher and error_publisher make none.  From
\* here two pipelines run on one publisher; the model stops.
RootSubscribeAgain ==
  /\ Running /\ Top.o = PubRef
  /\ pub' = [pub EXCEPT !.subs = IF MakesSubscription(cfg.src.kind) THEN @ + 1 ELSE @]
  /\ status' = "second"
  /\ stack' = <<>>
  /\ UNCHANGED <<services, cfg, srcs, ops, fwds, log, sink, pushed, uaf>>

\* ------------------------------------------------------------- generator
IsGen(f) == f.o[1] = "src" /\ srcs[f.o[2]].kind = "gen"
IsAsync(f) == f.o[1] = "src" /\ srcs[f.o[2]].kind = "async"

\* drain() entered whatever _in_drain says
NeverRecursive(in_drain) == FALSE

\* generator_publisher::sub::drain: `if (_in_drain) return;`
IsRecursiveCall(in_drain) == in_drain

\* generator_publisher::sub::request, up to the loop of drain()
GenRequest ==
  /\ Running /\ IsGen(Top) /\ Top.m = "request"
  /\ srcs[Top.o[2]].outstanding + Top.a <= DemandCap
  /\ LET j == Top.o[2] IN
       /\ srcs' = [srcs EXCEPT ![j] =
            [@ EXCEPT !.outstanding = @ + Top.a,
                      !.lateReq = @ \/ srcs[j].ncancel > 0,
                      !.in_drain = TRUE]]
       /\ IF IsRecursiveCall(srcs[j].in_drain)
            THEN Return
            ELSE TailCall([Fr(Top.o, "drain", 0) EXCEPT !.pc = 0])
  /\ Touch(Top.o)
  /\ UNCHANGED <<services, cfg, pub, ops, fwds, status, log, sink, pushed>>

\* generator_publisher::sub::drain: one turn of its while loop, or its exit
GenDrain ==
  /\ Running /\ IsGen(Top) /\ Top.m = "drain"
  /\ LET j == Top.o[2] IN
       IF srcs[j].active /\ srcs[j].outstanding > 0
         THEN /\ CallThen(0, [Fr(Top.o, "gen_fn", 0) EXCEPT !.n = srcs[j].outstanding])
              /\ UNCHANGED srcs
         ELSE /\ srcs' = [srcs EXCEPT ![j] =
                   [@ EXCEPT !.in_drain = FALSE,
                             !.alive = IF srcs[j].active THEN @ ELSE FALSE]]
              /\ Return
  /\ Touch(Top.o)
  /\ UNCHANGED <<services, cfg, pub, ops, fwds, status, log, sink, pushed>>

\* sub::on_next forgetting to count the item against the demand
GenAfterNextKeep(outstanding) == outstanding

\* generator_publisher::sub::on_next: `_outstanding--` before the item goes out
GenAfterNext(outstanding) == outstanding - 1

\* a loop that emits one item more than it was asked for
BeyondDemand(i, n) == i <= n

\* the loop test of the gen_fn, first half: `i < n`
WithinDemand(i, n) == i < n

\* a range that takes its upper end in
HasMoreInclusive(pos, to) == pos <= to

\* the loop test of the gen_fn, second half: `s->idx < s->data.size()` in
\* of_impl, `*t < to` in range_impl
HasMore(pos, to) == pos < to

\* the gen_fn of of_impl / range_impl, with sub::on_next, sub::on_complete and
\* sub::on_error (the observer it emits into) inlined
GenFn ==
  /\ Running /\ IsGen(Top) /\ Top.m = "gen_fn"
  /\ LET j == Top.o[2] IN
       CASE Top.pc = 0 /\ WithinDemand(Top.i, Top.n) /\ HasMore(srcs[j].pos, srcs[j].to) ->
              /\ srcs' = [srcs EXCEPT ![j] = [@ EXCEPT !.outstanding = GenAfterNext(@)]]
              /\ CallThen(1, Fr(SrcSink(j), "on_next", GenValue(j)))
         [] Top.pc = 0 /\ ~(WithinDemand(Top.i, Top.n) /\ HasMore(srcs[j].pos, srcs[j].to))
                       /\ srcs[j].pos = srcs[j].to ->
              /\ IF j = 0 /\ cfg.src.kind = "fail"
                   THEN CallThen(2, Fr(SrcSink(j), "on_error", GenError))
                   ELSE CallThen(2, Fr(SrcSink(j), "on_complete", 0))
              /\ UNCHANGED srcs
         [] Top.pc = 1 ->
              /\ srcs' = [srcs EXCEPT ![j] = [@ EXCEPT !.pos = @ + 1]]
              /\ stack' = Rest \o <<[Top EXCEPT !.pc = 0, !.i = @ + 1]>>
         [] Top.pc = 2 ->
              /\ srcs' = [srcs EXCEPT ![j] =
                   [@ EXCEPT !.active = FALSE,
                             !.alive = IF srcs[j].in_drain THEN @ ELSE FALSE]]
              /\ Return
         [] OTHER ->
              /\ Return
              /\ UNCHANGED srcs
  /\ Touch(Top.o)
  /\ UNCHANGED <<services, cfg, pub, ops, fwds, status, log, sink, pushed>>

\* generator_publisher::sub::cancel
GenCancel ==
  /\ Running /\ IsGen(Top) /\ Top.m = "cancel"
  /\ LET j == Top.o[2] IN
       srcs' = [srcs EXCEPT ![j] =
         [@ EXCEPT !.active = FALSE,
                   !.ncancel = @ + 1,
                   !.alive = IF srcs[j].in_drain THEN @ ELSE FALSE]]
  /\ Return
  /\ Touch(Top.o)
  /\ UNCHANGED <<services, cfg, pub, ops, fwds, status, log, sink, pushed>>

\* ----------------------------------------------------------------- async
\* async_publisher_impl::sub::request
AsyncRequest ==
  /\ Running /\ IsAsync(Top) /\ Top.m = "request"
  /\ srcs[Top.o[2]].outstanding + Top.a <= DemandCap
  /\ srcs' = [srcs EXCEPT ![Top.o[2]] =
       [@ EXCEPT !.outstanding = @ + Top.a, !.lateReq = @ \/ srcs[Top.o[2]].ncancel > 0]]
  /\ Return
  /\ Touch(Top.o)
  /\ UNCHANGED <<services, cfg, pub, ops, fwds, status, log, sink, pushed>>

\* async_publisher_impl::sub::cancel with assertions compiled out (NDEBUG):
\* the body is empty.  AssertionFailure is the other build.
AsyncCancel ==
  /\ Running /\ IsAsync(Top) /\ Top.m = "cancel"
  /\ srcs' = [srcs EXCEPT ![Top.o[2]] = [@ EXCEPT !.ncancel = @ + 1]]
  /\ Return
  /\ Touch(Top.o)
  /\ UNCHANGED <<services, cfg, pub, ops, fwds, status, log, sink, pushed>>

\* an item let through with no demand pending
PastDemandStrict(old) == old < 0

\* `outstanding.fetch_sub(1) <= 0`, old being the value fetch_sub returns
PastDemand(old) == old <= 0

\* async_publisher_impl::sub::on_next: fetch_sub, then deliver or compensate
AsyncOnNext ==
  /\ Running /\ IsAsync(Top) /\ Top.m = "on_next"
  /\ LET j == Top.o[2] IN
       CASE Top.pc = 0 ->
              /\ srcs' = [srcs EXCEPT ![j] = [@ EXCEPT !.outstanding = @ - 1]]
              /\ stack' = Rest \o <<[Top EXCEPT !.pc = 1, !.n = srcs[j].outstanding]>>
         [] Top.pc = 1 /\ PastDemand(Top.n) ->
              /\ srcs' = [srcs EXCEPT ![j] = [@ EXCEPT !.outstanding = @ + 1]]
              /\ Return
         [] OTHER ->
              /\ TailCall(Fr(SrcSink(j), "on_next", Top.a))
              /\ UNCHANGED srcs
  /\ Touch(Top.o)
  /\ UNCHANGED <<services, cfg, pub, ops, fwds, status, log, sink, pushed>>

\* the producer that captured the observer in init_fn emits the next item
Push ==
  /\ Idle /\ srcs[0].kind = "async" /\ pushed < MaxLen
  /\ pushed' = pushed + 1
  /\ stack' = <<Fr(SrcRef(0), "on_next", pushed + 1)>>
  /\ UNCHANGED <<services, cfg, pub, srcs, ops, fwds, status, log, sink, uaf>>


\* -------------------------------------------------------------- operators
IsOp(f, kind) == f.o[1] = "op" /\ cfg.chain[f.o[2]].k = kind
OnOp(kind, m) == Running /\ IsOp(Top, kind) /\ Top.m = m

\* what a subscriber has been sent so far: terminal events, and whether
\* anything came after one
Rx(r, m) ==
  [r EXCEPT !.late = @ \/ r.term > 0,
            !.term = IF m \in {"on_complete", "on_error"} THEN @ + 1 ELSE @,
            !.erx = IF m = "on_error" /\ @ = 0 THEN Top.a ELSE @]

SetOp(s, r) == ops' = [ops EXCEPT ![s] = r]

\* _sink.on_error(message) / _sink.on_complete(): what is passed downstream
Forwarded(m, message) == IF m = "on_error" THEN message ELSE 0

\* an item passed on as it came
MapItemUnmapped(t) == t

\* `_sink.on_next(_fn(std::move(t)))`: what map passes downstream
MapItem(t) == Fn(t)

\* map_op::instance::on_next
MapOnNext ==
  /\ OnOp("map", "on_next")
  /\ SetOp(Top.o[2], Rx(ops[Top.o[2]], Top.m))
  /\ TailCall(Fr(Down(Top.o[2]), "on_next", MapItem(Top.a)))
  /\ Touch(Top.o)
  /\ UNCHANGED <<services, cfg, pub, srcs, fwds, status, log, sink, pushed>>

\* map_op::instance::on_error and on_complete: forward, then delete this
MapOnTerminal ==
  /\ Running /\ IsOp(Top, "map") /\ Top.m \in {"on_error", "on_complete"}
  /\ LET s == Top.o[2] IN
       IF Top.pc = 0
         THEN /\ SetOp(s, Rx(ops[s], Top.m))
              /\ CallThen(1, Fr(Down(s), Top.m, Forwarded(Top.m, Top.a)))
         ELSE /\ SetOp(s, [ops[s] EXCEPT !.alive = FALSE])
              /\ Return
  /\ Touch(Top.o)
  /\ UNCHANGED <<services, cfg, pub, srcs, fwds, status, log, sink, pushed>>

\* map_op::instance::on_subscribe
MapOnSubscribe ==
  /\ OnOp("map", "on_subscribe")
  /\ SetOp(Top.o[2], [ops[Top.o[2]] EXCEPT !.src = TRUE])
  /\ TailCall(Fr(Down(Top.o[2]), "on_subscribe", 0))
  /\ Touch(Top.o)
  /\ UNCHANGED <<services, cfg, pub, srcs, fwds, status, log, sink, pushed>>

\* map_op::instance::request
MapRequest ==
  /\ OnOp("map", "request")
  /\ TailCall(Fr(Up(Top.o[2]), "request", Top.a))
  /\ Touch(Top.o)
  /\ UNCHANGED <<services, cfg, pub, srcs, ops, fwds, status, log, sink, pushed>>

\* map_op::instance::cancel
MapCancel ==
  /\ OnOp("map", "cancel")
  /\ LET s == Top.o[2] IN
       IF Top.pc = 0
         THEN /\ CallThen(1, Fr(Up(s), "cancel", 0))
              /\ SetOp(s, [ops[s] EXCEPT !.ncancel = @ + 1])
         ELSE /\ SetOp(s, [ops[s] EXCEPT !.alive = FALSE])
              /\ Return
  /\ Touch(Top.o)
  /\ UNCHANGED <<services, cfg, pub, srcs, fwds, status, log, sink, pushed>>

\* on_next completing downstream before it cancels the source
TakeLastItemCallsSwapped == <<"on_complete", "cancel">>

\* take_op::instance::on_next, `if (!_remaining)`: the two calls, in order
TakeLastItemCalls == <<"cancel", "on_complete">>

TakeCall(s, c) ==
  IF c = "cancel" THEN Fr(Up(s), "cancel", 0) ELSE Fr(Down(s), "on_complete", 0)

\* take_op::instance::on_next: forward, count down, and on the last item
\* cancel the source and complete (on_complete: _sink.on_complete(), delete
\* this)
TakeOnNext ==
  /\ OnOp("take", "on_next")
  /\ LET s == Top.o[2] IN
       CASE Top.pc = 0 ->
              /\ SetOp(s, Rx(ops[s], Top.m))
              /\ CallThen(1, Fr(Down(s), "on_next", Top.a))
         [] Top.pc = 1 ->
              /\ SetOp(s, [ops[s] EXCEPT !.remaining = @ - 1, !.outstanding = @ - 1])
              /\ IF ops[s].remaining - 1 = 0
                   THEN CallThen(2, TakeCall(s, TakeLastItemCalls[1]))
                   ELSE Return
         [] Top.pc = 2 ->
              /\ CallThen(3, TakeCall(s, TakeLastItemCalls[2]))
              /\ UNCHANGED ops
         [] OTHER ->
              /\ SetOp(s, [ops[s] EXCEPT !.alive = FALSE])
              /\ Return
  /\ Touch(Top.o)
  /\ UNCHANGED <<services, cfg, pub, srcs, fwds, status, log, sink, pushed>>

\* take_op::instance::on_error and on_complete
TakeOnTerminal ==
  /\ Running /\ IsOp(Top, "take") /\ Top.m \in {"on_error", "on_complete"}
  /\ LET s == Top.o[2] IN
       IF Top.pc = 0
         THEN /\ SetOp(s, Rx(ops[s], Top.m))
              /\ CallThen(1, Fr(Down(s), Top.m, Forwarded(Top.m, Top.a)))
         ELSE /\ SetOp(s, [ops[s] EXCEPT !.alive = FALSE])
              /\ Return
  /\ Touch(Top.o)
  /\ UNCHANGED <<services, cfg, pub, srcs, fwds, status, log, sink, pushed>>

\* take_op::instance::on_subscribe
TakeOnSubscribe ==
  /\ OnOp("take", "on_subscribe")
  /\ SetOp(Top.o[2], [ops[Top.o[2]] EXCEPT !.src = TRUE])
  /\ TailCall(Fr(Down(Top.o[2]), "on_subscribe", 0))
  /\ Touch(Top.o)
  /\ UNCHANGED <<services, cfg, pub, srcs, fwds, status, log, sink, pushed>>

\* long actual = std::min((long)n, _remaining - _outstanding)
TakeActual(n, remaining, outstanding) == Min(n, remaining - outstanding)

\* take_op::instance::request
TakeRequest ==
  /\ OnOp("take", "request")
  /\ LET s == Top.o[2]
         actual == TakeActual(Top.a, ops[s].remaining, ops[s].outstanding)
     IN /\ SetOp(s, [ops[s] EXCEPT !.outstanding = @ + actual, !.fwdreq = @ + actual])
        /\ TailCall(Fr(Up(s), "request", actual))
  /\ Touch(Top.o)
  /\ UNCHANGED <<services, cfg, pub, srcs, fwds, status, log, sink, pushed>>

\* take_op::instance::cancel
TakeCancel ==
  /\ OnOp("take", "cancel")
  /\ LET s == Top.o[2] IN
       IF Top.pc = 0
         THEN /\ CallThen(1, Fr(Up(s), "cancel", 0))
              /\ SetOp(s, [ops[s] EXCEPT !.ncancel = @ + 1])
         ELSE /\ SetOp(s, [ops[s] EXCEPT !.alive = FALSE])
              /\ Return
  /\ Touch(Top.o)
  /\ UNCHANGED <<services, cfg, pub, srcs, fwds, status, log, sink, pushed>>

\* do_finally_op::instance::on_next
FinallyOnNext ==
  /\ OnOp("do_finally", "on_next")
  /\ SetOp(Top.o[2], Rx(ops[Top.o[2]], Top.m))
  /\ TailCall(Fr(Down(Top.o[2]), "on_next", Top.a))
  /\ Touch(Top.o)
  /\ UNCHANGED <<services, cfg, pub, srcs, fwds, status, log, sink, pushed>>

\* do_finally_op::instance::on_error and on_complete: forward, _fn(), delete
FinallyOnTerminal ==
  /\ Running /\ IsOp(Top, "do_finally") /\ Top.m \in {"on_error", "on_complete"}
  /\ LET s == Top.o[2] IN
       IF Top.pc = 0
         THEN /\ SetOp(s, Rx(ops[s], Top.m))
              /\ CallThen(1, Fr(Down(s), Top.m, Forwarded(Top.m, Top.a)))
         ELSE /\ SetOp(s, [ops[s] EXCEPT !.fcalls = @ + 1, !.alive = FALSE])
              /\ Return
  /\ Touch(Top.o)
  /\ UNCHANGED <<services, cfg, pub, srcs, fwds, status, log, sink, pushed>>

\* do_finally_op::instance::on_subscribe
FinallyOnSubscribe ==
  /\ OnOp("do_finally", "on_subscribe")
  /\ SetOp(Top.o[2], [ops[Top.o[2]] EXCEPT !.src = TRUE])
  /\ TailCall(Fr(Down(Top.o[2]), "on_subscribe", 0))
  /\ Touch(Top.o)
  /\ UNCHANGED <<services, cfg, pub, srcs, fwds, status, log, sink, pushed>>

\* do_finally_op::instance::request
FinallyRequest ==
  /\ OnOp("do_finally", "request")
  /\ TailCall(Fr(Up(Top.o[2]), "request", Top.a))
  /\ Touch(Top.o)
  /\ UNCHANGED <<services, cfg, pub, srcs, ops, fwds, status, log, sink, pushed>>

\* do_finally_op::instance::cancel: cancel the source, _fn(), delete this
FinallyCancel ==
  /\ OnOp("do_finally", "cancel")
  /\ LET s == Top.o[2] IN
       IF Top.pc = 0
         THEN /\ CallThen(1, Fr(Up(s), "cancel", 0))
              /\ SetOp(s, [ops[s] EXCEPT !.ncancel = @ + 1])
         ELSE /\ SetOp(s, [ops[s] EXCEPT !.fcalls = @ + 1, !.alive = FALSE])
              /\ Return
  /\ Touch(Top.o)
  /\ UNCHANGED <<services, cfg, pub, srcs, fwds, status, log, sink, pushed>>

\* ----------------------------------------------------- terminal subscriber
IsSink(f) == f.o[1] = "sink"
Terminal(e) == e.e \in {"complete", "error"}
Terminated == \E i \in 1..Len(log) : Terminal(log[i])
Subscribed == \E i \in 1..Len(log) : log[i].e = "subscribe"

\* the subscription handed to the terminal subscriber
SinkUp == IF K = 0 THEN SrcRef(0) ELSE OpRef(K)

\* What a subscriber may do with its subscription at this point: nothing
\* (0), cancel (-1) or request(c), within the demand bound; after a terminal
\* event or its own cancel it leaves the subscription alone.  process::sub
\* calls _source->request(1) in on_subscribe and in every on_next.
SinkChoices(lg) ==
  CASE PullsOne(cfg.sub) -> {1}
    [] sink.cancelled \/ \E i \in 1..Len(lg) : Terminal(lg[i]) -> {0}
    [] OTHER -> {-1, 0} \cup {c \in 1..MaxDemand : sink.requested + c <= MaxDemand}

SinkDoes(c, lg, back, inNext) ==
  CASE c = 0 ->
         /\ stack' = back
         /\ UNCHANGED sink
    [] c = -1 ->
         /\ stack' = back \o <<Fr(SinkUp, "cancel", 0)>>
         /\ sink' = [sink EXCEPT !.cancelled = TRUE, !.cancelAt = Len(lg)]
    [] OTHER ->
         /\ stack' = back \o <<Fr(SinkUp, "request", c)>>
         /\ sink' = [sink EXCEPT !.requested = @ + c, !.reentered = @ \/ inNext]

\* subscriber::on_subscribe of the terminal subscriber
SinkOnSubscribe ==
  /\ Running /\ IsSink(Top) /\ Top.m = "on_subscribe"
  /\ log' = Append(log, Ev("subscribe", 0))
  /\ \E c \in SinkChoices(log') : SinkDoes(c, log', Rest, FALSE)
  /\ Touch(Top.o)
  /\ UNCHANGED <<services, cfg, pub, srcs, ops, fwds, status, pushed>>

\* subscriber::on_next of the terminal subscriber
SinkOnNext ==
  /\ Running /\ IsSink(Top) /\ Top.m = "on_next"
  /\ log' = Append(log, Ev("next", Top.a))
  /\ \E c \in SinkChoices(log') : SinkDoes(c, log', Rest, TRUE)
  /\ Touch(Top.o)
  /\ UNCHANGED <<services, cfg, pub, srcs, ops, fwds, status, pushed>>

\* subscriber::on_complete and on_error of the terminal subscriber; those of
\* process::sub end with `delete this`, and so does mkv_sink_impl's
\* on_complete, while its on_error ends the process with exit(1)
SinkOnTerminal ==
  /\ Running /\ IsSink(Top) /\ Top.m \in {"on_complete", "on_error"}
  /\ log' = Append(log, Ev(IF Top.m = "on_complete" THEN "complete" ELSE "error", Top.a))
  /\ sink' = [sink EXCEPT !.alive = IF PullsOne(cfg.sub) THEN FALSE ELSE @]
  /\ IF cfg.sub = "mkv" /\ Top.m = "on_error"
       THEN stack' = <<>> /\ status' = "exit"
       ELSE Return /\ UNCHANGED status
  /\ Touch(Top.o)
  /\ UNCHANGED <<services, cfg, pub, srcs, ops, fwds, pushed>>

\* the subscriber calls request(c) from outside any callback
Request ==
  /\ Idle /\ Subscribed /\ cfg.sub = "any"
  /\ \E c \in SinkChoices(log) \ {-1, 0} : SinkDoes(c, log, <<>>, FALSE)
  /\ UNCHANGED <<services, cfg, pub, srcs, ops, fwds, status, log, pushed, uaf>>

\* the subscriber calls cancel() from outside any callback
Cancel ==
  /\ Idle /\ Subscribed /\ cfg.sub = "any"
  /\ -1 \in SinkChoices(log)
  /\ SinkDoes(-1, log, <<>>, FALSE)
  /\ UNCHANGED <<services, cfg, pub, srcs, ops, fwds, status, log, pushed, uaf>>


\* ---------------------------------------------------------------- flat_map
Crash ==
  /\ status' = "crash"
  /\ stack' = <<>>

\* flat_map_op::instance::drain, its guard: `if (!_active || !_outstanding ||
\* _in_drain) return; _in_drain = true;` with r the instance's fields
EnterDrain(s, r) ==
  IF ~r.active \/ r.outstanding = 0 \/ r.in_drain
    THEN /\ SetOp(s, r)
         /\ Return
    ELSE /\ SetOp(s, [r EXCEPT !.in_drain = TRUE])
         /\ TailCall(Fr(OpRef(s), "drain", 0))

\* flat_map_op::instance::on_subscribe
FlatOnSubscribe ==
  /\ OnOp("flat_map", "on_subscribe")
  /\ SetOp(Top.o[2], [ops[Top.o[2]] EXCEPT !.src = TRUE])
  /\ TailCall(Fr(Down(Top.o[2]), "on_subscribe", 0))
  /\ Touch(Top.o)
  /\ UNCHANGED <<services, cfg, pub, srcs, fwds, status, log, sink, pushed>>

\* the fwd_sub objects created so far
Made == {k \in InnerIds : fwds[k].made}

\* flat_map_op::instance::on_next: _fwd_sub = new fwd_sub, subscribe it to
\* _fn(t) (a generator answers with on_subscribe, which fwd_sub stores; empty
\* and error answer with the terminal event), then drain()
FlatOnNext ==
  /\ OnOp("flat_map", "on_next")
  /\ LET s == Top.o[2]
         k == Cardinality(Made) + 1
     IN IF Top.pc = 0
          THEN /\ SetOp(s, [Rx(ops[s], Top.m) EXCEPT
                              !.requested_next = FALSE,
                              !.fwd_sub = k,
                              !.overlap = @ \/ \E p \in Made : ~fwds[p].done])
               /\ fwds' = [fwds EXCEPT ![k] =
                    [NoFwd EXCEPT !.alive = TRUE, !.made = TRUE, !.item = Top.a,
                                  !.src = MakesSubscription(cfg.inner.kind)]]
               /\ \E v \in Indeterminate :
                    srcs' = [srcs EXCEPT ![k] =
                      CASE cfg.inner.kind = "of" -> NewGen(0, cfg.inner.len)
                        [] cfg.inner.kind = "async" -> NewAsync(v)
                        [] OTHER -> NoSrc]
               /\ CASE cfg.inner.kind = "empty" ->
                         CallThen(1, Fr(FwdRef(k), "on_complete", 0))
                    [] cfg.inner.kind = "error" ->
                         CallThen(1, Fr(FwdRef(k), "on_error", Top.a))
                    [] OTHER -> Goto(1)
          ELSE /\ EnterDrain(s, ops[s])
               /\ UNCHANGED <<fwds, srcs>>
  /\ Touch(Top.o)
  /\ UNCHANGED <<services, cfg, pub, status, log, sink, pushed>>

\* flat_map_op::instance::on_error
FlatOnError ==
  /\ OnOp("flat_map", "on_error")
  /\ LET s == Top.o[2] IN
       IF Top.pc = 0
         THEN /\ SetOp(s, [Rx(ops[s], Top.m) EXCEPT !.active = FALSE])
              /\ CallThen(1, Fr(Down(s), "on_error", Forwarded(Top.m, Top.a)))
         ELSE /\ SetOp(s, [ops[s] EXCEPT !.alive = FALSE])
              /\ Return
  /\ Touch(Top.o)
  /\ UNCHANGED <<services, cfg, pub, srcs, fwds, status, log, sink, pushed>>

\* the source's completion passed downstream whatever the inner publisher does
CompleteNowAlways(fwd_sub) == TRUE

\* on_complete: `if (!_fwd_sub)`, complete downstream at once
CompleteNow(fwd_sub) == fwd_sub = 0

\* flat_map_op::instance::on_complete
FlatOnComplete ==
  /\ OnOp("flat_map", "on_complete")
  /\ LET s == Top.o[2]
         r == [Rx(ops[s], Top.m) EXCEPT !.source_complete = TRUE]
     IN CASE Top.pc = 0 /\ CompleteNow(ops[s].fwd_sub) ->
               /\ SetOp(s, [r EXCEPT !.active = FALSE])
               /\ CallThen(1, Fr(Down(s), "on_complete", 0))
          [] Top.pc = 0 /\ ~CompleteNow(ops[s].fwd_sub) ->
               EnterDrain(s, r)
          [] OTHER ->
               /\ SetOp(s, [ops[s] EXCEPT !.alive = IF ops[s].in_drain THEN @ ELSE FALSE])
               /\ Return
  /\ Touch(Top.o)
  /\ UNCHANGED <<services, cfg, pub, srcs, fwds, status, log, sink, pushed>>

\* flat_map_op::instance::request
FlatRequest ==
  /\ OnOp("flat_map", "request")
  /\ EnterDrain(Top.o[2], [ops[Top.o[2]] EXCEPT !.outstanding = @ + Top.a])
  /\ Touch(Top.o)
  /\ UNCHANGED <<services, cfg, pub, srcs, fwds, status, log, sink, pushed>>

\* flat_map_op::instance::drain, the loop: pc 0 is the loop test, pc 1 follows
\* _source->request(1), pc 2 follows the on_complete() before `break`, whose
\* body (here _fwd_sub is null and _in_drain is set) is `_active = false;
\* _sink.on_complete();`
FlatDrain ==
  /\ OnOp("flat_map", "drain")
  /\ LET s == Top.o[2]
         r == ops[s]
         exit == /\ SetOp(s, [r EXCEPT !.in_drain = FALSE,
                                       !.alive = IF r.active THEN @ ELSE FALSE])
                 /\ Return
     IN CASE Top.pc = 0 /\ r.active /\ r.outstanding # 0 /\ r.fwd_sub = 0
                        /\ r.source_complete ->
               /\ SetOp(s, [r EXCEPT !.active = FALSE])
               /\ CallThen(2, Fr(Down(s), "on_complete", 0))
          [] Top.pc = 0 /\ r.active /\ r.outstanding # 0 /\ r.fwd_sub = 0
                        /\ ~r.source_complete ->
               /\ SetOp(s, [r EXCEPT !.requested_next = TRUE])
               /\ CallThen(1, Fr(Up(s), "request", 1))
          [] Top.pc = 0 /\ r.active /\ r.outstanding # 0 /\ r.fwd_sub # 0 ->
               /\ CallThen(0, Fr(FwdRef(r.fwd_sub), "request", r.outstanding))
               /\ UNCHANGED ops
          [] Top.pc = 1 /\ ~(r.fwd_sub = 0 /\ r.requested_next) ->
               /\ Goto(0)
               /\ UNCHANGED ops
          [] OTHER -> exit
  /\ Touch(Top.o)
  /\ UNCHANGED <<services, cfg, pub, srcs, fwds, status, log, sink, pushed>>

\* flat_map_op::instance::cancel
FlatCancel ==
  /\ OnOp("flat_map", "cancel")
  /\ LET s == Top.o[2] IN
       CASE Top.pc = 0 ->
              /\ CallThen(1, Fr(Up(s), "cancel", 0))
              /\ SetOp(s, [ops[s] EXCEPT !.ncancel = @ + 1])
         [] Top.pc = 1 /\ ops[s].fwd_sub # 0 ->
              /\ CallThen(2, Fr(FwdRef(ops[s].fwd_sub), "cancel", 0))
              /\ UNCHANGED ops
         [] OTHER ->
              /\ SetOp(s, [ops[s] EXCEPT !.alive = FALSE])
              /\ Return
  /\ Touch(Top.o)
  /\ UNCHANGED <<services, cfg, pub, srcs, fwds, status, log, sink, pushed>>

\* flat_map_op::instance::current_result_complete
FlatCurrentResultComplete ==
  /\ OnOp("flat_map", "current_result_complete")
  /\ EnterDrain(Top.o[2], [ops[Top.o[2]] EXCEPT !.fwd_sub = 0])
  /\ Touch(Top.o)
  /\ UNCHANGED <<services, cfg, pub, srcs, fwds, status, log, sink, pushed>>

\* ----------------------------------------------------------------- fwd_sub
OnFwd(m) == Running /\ Top.o[1] = "fwd" /\ Top.m = m
SetFwd(k, r) == fwds' = [fwds EXCEPT ![k] = r]

\* fwd_sub::on_next: _instance->_outstanding--, then forward
FwdOnNext ==
  /\ OnFwd("on_next")
  /\ SetFwd(Top.o[2], Rx(fwds[Top.o[2]], Top.m))
  /\ SetOp(FM, [ops[FM] EXCEPT !.outstanding = @ - 1])
  /\ TailCall(Fr(Down(FM), "on_next", Top.a))
  /\ uaf' = (uaf \/ ~Alive(Top.o) \/ ~ops[FM].alive)
  /\ UNCHANGED <<services, cfg, pub, srcs, status, log, sink, pushed>>

\* fwd_sub::on_error: forward to the sink, delete this
FwdOnError ==
  /\ OnFwd("on_error")
  /\ LET k == Top.o[2] IN
       IF Top.pc = 0
         THEN /\ SetFwd(k, Rx(fwds[k], Top.m))
              /\ CallThen(1, Fr(Down(FM), "on_error", Forwarded(Top.m, Top.a)))
         ELSE /\ SetFwd(k, [fwds[k] EXCEPT !.alive = FALSE])
              /\ Return
  /\ Touch(Top.o)
  /\ UNCHANGED <<services, cfg, pub, srcs, ops, status, log, sink, pushed>>

\* fwd_sub::on_complete: _instance->current_result_complete(), delete this
FwdOnComplete ==
  /\ OnFwd("on_complete")
  /\ LET k == Top.o[2] IN
       IF Top.pc = 0
         THEN /\ SetFwd(k, [Rx(fwds[k], Top.m) EXCEPT !.done = TRUE])
              /\ CallThen(1, Fr(OpRef(FM), "current_result_complete", 0))
         ELSE /\ SetFwd(k, [fwds[k] EXCEPT !.alive = FALSE])
              /\ Return
  /\ Touch(Top.o)
  /\ UNCHANGED <<services, cfg, pub, srcs, ops, status, log, sink, pushed>>

\* fwd_sub::request: _source is null when the inner publisher never called
\* on_subscribe
FwdRequest ==
  /\ OnFwd("request")
  /\ IF fwds[Top.o[2]].src
       THEN /\ TailCall(Fr(SrcRef(Top.o[2]), "request", Top.a))
            /\ UNCHANGED status
       ELSE Crash
  /\ Touch(Top.o)
  /\ UNCHANGED <<services, cfg, pub, srcs, ops, fwds, log, sink, pushed>>

\* fwd_sub::cancel
FwdCancel ==
  /\ OnFwd("cancel")
  /\ LET k == Top.o[2] IN
       CASE Top.pc = 0 /\ fwds[k].src ->
              /\ CallThen(1, Fr(SrcRef(k), "cancel", 0))
              /\ UNCHANGED <<fwds, status>>
         [] Top.pc = 0 /\ ~fwds[k].src ->
              /\ Crash
              /\ UNCHANGED fwds
         [] OTHER ->
              /\ SetFwd(k, [fwds[k] EXCEPT !.alive = FALSE])
              /\ Return
              /\ UNCHANGED status
  /\ Touch(Top.o)
  /\ UNCHANGED <<services, cfg, pub, srcs, ops, log, sink, pushed>>

\* ------------------------------------------------- aborts of the process
\* A BOOST_ASSERT whose condition is false where frame f stands: the build
\* with assertions aborts there (the actions above are the NDEBUG build).
FailedAssert(f) ==
  /\ f.pc = 0
  /\ \/ IsGen(f) /\ f.m = "request" /\ ~srcs[f.o[2]].active
     \/ IsAsync(f) /\ f.m = "cancel"
     \/ IsOp(f, "flat_map") /\ f.m = "on_next" /\ ops[f.o[2]].fwd_sub # 0
     \/ (IsOp(f, "flat_map") \/ IsOp(f, "map")) /\ f.m = "on_subscribe" /\ ops[f.o[2]].src
     \/ f.o = PubRef /\ pub.subscribed

AssertionFailure ==
  /\ Running /\ FailedAssert(Top)
  /\ status' = "abort"
  /\ stack' = <<>>
  /\ UNCHANGED <<services, cfg, pub, srcs, ops, fwds, log, sink, pushed, uaf>>

\* A method running on a deleted object reads freed memory: the process may
\* die there instead of going on.
UseAfterFree ==
  /\ Running /\ ~Alive(Top.o)
  /\ Crash
  /\ uaf' = TRUE
  /\ UNCHANGED <<services, cfg, pub, srcs, ops, fwds, log, sink, pushed>>

Next ==
  \/ Subscribe \/ SubscribeAgain \/ RootSubscribeAgain
  \/ GenRequest \/ GenDrain \/ GenFn \/ GenCancel
  \/ AsyncRequest \/ AsyncCancel \/ AsyncOnNext \/ Push
  \/ MapOnNext \/ MapOnTerminal \/ MapOnSubscribe \/ MapRequest \/ MapCancel
  \/ TakeOnNext \/ TakeOnTerminal \/ TakeOnSubscribe \/ TakeRequest \/ TakeCancel
  \/ FinallyOnNext \/ FinallyOnTerminal \/ FinallyOnSubscribe \/ FinallyRequest
  \/ FinallyCancel
  \/ FlatOnSubscribe \/ FlatOnNext \/ FlatOnError \/ FlatOnComplete \/ FlatRequest
  \/ FlatDrain \/ FlatCancel \/ FlatCurrentResultComplete
  \/ FwdOnNext \/ FwdOnError \/ FwdOnComplete \/ FwdRequest \/ FwdCancel
  \/ SinkOnSubscribe \/ SinkOnNext \/ SinkOnTerminal \/ Request \/ Cancel
  \/ AssertionFailure \/ UseAfterFree

Spec == Init /\ [][Next]_vars


\* ============================================================ bus client
\* secure_client of src/src/rtmclient.cpp.  One action is one call of a
\* public method, or one run of the read handler.
ClientLive == client.exit = "none"

\* A failed BOOST_VERIFY with assertions compiled in.
Aborted(c) == [client EXCEPT !.exit = "abort", !.call = c]
\* fail(): log and exit(1).
Failed(c) == [client EXCEPT !.exit = "exit", !.call = c]
\* _ws.write on a socket that is not connected throws system_error, which
\* nothing in the client catches.
Thrown(c) == [client EXCEPT !.exit = "throw", !.call = c]

\* Closing the socket (close(), or asio::connect on an open socket) ends the
\* connection: the pending async_read completes with operation_aborted and
\* what was in flight is lost.
CloseSocket(cl) ==
  [cl EXCEPT !.open = FALSE, !.aborting = @ \/ cl.reading, !.reading = FALSE,
             !.wire = <<>>, !.srv = {}]

\* start() without its guard
StartAlways(state) == TRUE
\* BOOST_VERIFY(_client_state == client_state::Stopped)
StartAllowed(state) == state = "Stopped"
\* BOOST_VERIFY(_client_state == client_state::Running)
StopAllowed(state) == state = "Running"
\* BOOST_VERIFY_MSG(_client_state == client_state::Running, ...)
RequestAllowed(state) == state = "Running"

\* start(): resolve, connect, both handshakes (fail() on an error), then
\* Running and the first async_read.
ClientStart ==
  /\ ClientLive
  /\ \E ok \in BOOLEAN :
       client' =
         [(IF ~StartAllowed(client.state) /\ ~client.ndebug THEN Aborted("start")
           ELSE IF ~ok THEN Failed("start")
           ELSE [CloseSocket(client) EXCEPT !.state = "Running", !.open = TRUE,
                                            !.reading = TRUE, !.call = "start"])
          EXCEPT !.ch = 0]
  /\ UNCHANGED <<kernel, bot, pool, file, asub, mkv>>

\* stop(): PendingStopped, then the socket is closed (fail() on an error).
ClientStop ==
  /\ ClientLive
  /\ \E ok \in BOOLEAN :
       client' =
         [(IF ~StopAllowed(client.state) /\ ~client.ndebug THEN Aborted("stop")
           ELSE IF ~ok THEN Failed("stop")
           ELSE [CloseSocket(client) EXCEPT !.state = "PendingStopped",
                                            !.call = "stop"])
          EXCEPT !.ch = 0]
  /\ UNCHANGED <<kernel, bot, pool, file, asub, mkv>>

\* the read handler, called with operation_aborted
ClientReadAborted ==
  /\ ClientLive /\ client.aborting
  /\ client' =
       [(IF client.state # "PendingStopped" /\ ~client.ndebug
           THEN Aborted("read_aborted")
           ELSE [client EXCEPT !.state = "Stopped",
                               !.subs = [c \in Channels |-> NoSub],
                               !.aborting = FALSE, !.call = "read_aborted"])
        EXCEPT !.ch = 0]
  /\ UNCHANGED <<kernel, bot, pool, file, asub, mkv>>

Pdu(kind, id, ch) == [kind |-> kind, id |-> id, ch |-> ch]

\* subscribe_channel(): emplace keeps a record the channel already has, and
\* ++_request_id is evaluated either way; then the request is written.
ClientSubscribe(ch) ==
  /\ ClientLive /\ client.request_id < MaxRequests
  /\ client' =
       [(IF ~RequestAllowed(client.state) /\ ~client.ndebug THEN Aborted("subscribe")
         ELSE IF ~client.open THEN Thrown("subscribe")
         ELSE [client EXCEPT
                 !.request_id = @ + 1,
                 !.subs[ch] = IF @.status = "None"
                                THEN [status |-> "PendingSubscribe",
                                      pending |-> client.request_id + 1]
                                ELSE @,
                 !.wire = Append(@, Pdu("subscribe", client.request_id + 1, ch)),
                 !.call = "subscribe"])
        EXCEPT !.ch = ch]
  /\ UNCHANGED <<kernel, bot, pool, file, asub, mkv>>

\* unsubscribe(): the record of the subscription, whatever its status, becomes
\* PendingUnsubscribe under a new request id; no record is a failed
\* BOOST_VERIFY_MSG(false, ...).
ClientUnsubscribe(ch) ==
  /\ ClientLive /\ client.request_id < MaxRequests
  /\ client' =
       [(IF ~RequestAllowed(client.state) /\ ~client.ndebug THEN Aborted("unsubscribe")
         ELSE IF client.subs[ch].status = "None"
           THEN (IF client.ndebug THEN [client EXCEPT !.call = "unsubscribe"]
                                  ELSE Aborted("unsubscribe"))
         ELSE IF ~client.open THEN Thrown("unsubscribe")
         ELSE [client EXCEPT
                 !.request_id = @ + 1,
                 !.subs[ch] = [status |-> "PendingUnsubscribe",
                               pending |-> client.request_id + 1],
                 !.wire = Append(@, Pdu("unsubscribe", client.request_id + 1, ch)),
                 !.call = "unsubscribe"])
        EXCEPT !.ch = ch]
  /\ UNCHANGED <<kernel, bot, pool, file, asub, mkv>>

\* the records whose pending_request_id is id
Waiting(id) == {c \in Channels : client.subs[c].pending = id}

\* the status process_input verifies for a reply to req
Expected(req) ==
  IF req.kind = "subscribe" THEN "PendingSubscribe" ELSE "PendingUnsubscribe"

\* the client_error that the handler of rtm/<kind>/error passes to on_error
ErrorOf(req) ==
  IF req.kind = "subscribe" THEN "SubscribeError" ELSE "UnsubscribeError"

\* an error handler that leaves the record of the failed request in the table
AfterReplyKeeps(r, req, ok) ==
  IF req.kind = "subscribe" /\ ok THEN [status |-> "Current", pending |-> 0]
  ELSE IF ok THEN NoSub ELSE r

\* the record r of the request req after the handler of its reply:
\* subscribe/ok makes it Current with no request pending; unsubscribe/ok and
\* the two errors erase it
AfterReply(r, req, ok) ==
  IF req.kind = "subscribe" /\ ok THEN [status |-> "Current", pending |-> 0]
  ELSE NoSub

\* process_input on the reply to req: rtm/<kind>/ok or rtm/<kind>/error with
\* req's id.  The record waiting for the id is verified and updated, an error
\* reply calling on_error first; a reply no record waits for is
\* BOOST_VERIFY(false).
Replied(req, ok) ==
  IF Waiting(req.id) = {}
    THEN (IF client.ndebug
            THEN [client EXCEPT !.call = "reply", !.ch = req.ch, !.ok = ok]
            ELSE [Aborted("reply") EXCEPT !.ch = req.ch, !.ok = ok])
    ELSE LET c == CHOOSE x \in Waiting(req.id) : TRUE IN
         IF client.subs[c].status # Expected(req) /\ ~client.ndebug
           THEN [Aborted("reply") EXCEPT !.ch = req.ch, !.ok = ok]
           ELSE [client EXCEPT
                   !.subs[c] = AfterReply(@, req, ok),
                   !.errors = IF ok THEN @ ELSE Append(@, ErrorOf(req)),
                   !.call = "reply", !.ch = req.ch, !.ok = ok]

\* The server's side of a request: ok means it was carried out, error that
\* it was not.
ServerAfter(srv, req, ok) ==
  CASE ok /\ req.kind = "subscribe" -> srv \cup {req.ch}
    [] ok /\ req.kind = "unsubscribe" -> srv \ {req.ch}
    [] OTHER -> srv

\* The read handler with the server's reply to the oldest request in flight;
\* it ends with ask_for_read().
ClientReply ==
  /\ ClientLive /\ client.reading /\ client.open /\ client.wire # <<>>
  /\ \E ok \in BOOLEAN :
       client' = [Replied(Head(client.wire), ok) EXCEPT
                    !.wire = Tail(@),
                    !.srv = ServerAfter(@, Head(client.wire), ok)]
  /\ UNCHANGED <<kernel, bot, pool, file, asub, mkv>>

\* What reading through _subscriptions.end() can come to, BOOST_VERIFY(it !=
\* end()) being compiled out: the bytes behind the map read as a record
\* pending deletion and the frame is dropped, or the call through its
\* callbacks reference faults.
Crashed(c) == [client EXCEPT !.exit = "crash", !.call = c]

\* process_input, rtm/subscription/data: `if (sub.status ==
\* subscription_status::PendingUnsubscribe) return;` before the loop over
\* the messages
Delivers(st) == st # "PendingUnsubscribe"

\* The read handler with an rtm/subscription/data frame for channel ch, which
\* the server sends while it holds the subscription.
ClientData(ch) ==
  /\ ClientLive /\ client.reading /\ client.open /\ ch \in client.srv
  /\ LET st == client.subs[ch].status IN
       \E fault \in BOOLEAN :
         client' =
           [(IF st = "None"
               THEN (IF ~client.ndebug THEN Aborted("data")
                     ELSE IF fault THEN Crashed("data")
                     ELSE [client EXCEPT !.call = "data_dropped"])
             ELSE IF st = "PendingSubscribe" /\ ~client.ndebug THEN Aborted("data")
             ELSE IF Delivers(st) THEN [client EXCEPT !.call = "on_data"]
             ELSE [client EXCEPT !.call = "data_dropped"])
            EXCEPT !.ch = ch]
  /\ UNCHANGED <<kernel, bot, pool, file, asub, mkv>>

\* The read handler with an rtm/subscription/error frame: on_error, and no
\* record is touched.
ClientSubscriptionError ==
  /\ ClientLive /\ client.reading /\ client.open /\ client.srv # {}
  /\ Len(client.errors) < MaxRequests
  /\ client' = [client EXCEPT !.errors = Append(@, "SubscriptionError"),
                              !.call = "subscription_error", !.ch = 0]
  /\ UNCHANGED <<kernel, bot, pool, file, asub, mkv>>

\* publish(): callbacks must be null and the client Running; then the
\* message is written.
ClientPublish ==
  /\ ClientLive
  /\ \E callbacks \in BOOLEAN :
       client' =
         [(IF (callbacks \/ ~RequestAllowed(client.state)) /\ ~client.ndebug
             THEN Aborted("publish")
           ELSE IF ~client.open THEN Thrown("publish")
           ELSE [client EXCEPT !.call = "publish"])
          EXCEPT !.ch = 0]
  /\ UNCHANGED <<kernel, bot, pool, file, asub, mkv>>

ClientInit ==
  /\ KernelParked
  /\ client \in {[NewClient EXCEPT !.ndebug = b] : b \in BOOLEAN}
  /\ bot = NewBot
  /\ pool = NewPool
  /\ file = NewFile
  /\ asub = NewAsub
  /\ mkv = NewMkv

ClientNext ==
  \/ ClientStart \/ ClientStop \/ ClientReadAborted
  \/ \E ch \in Channels : ClientSubscribe(ch)
  \/ \E ch \in Channels : ClientUnsubscribe(ch)
  \/ ClientReply
  \/ \E ch \in Channels : ClientData(ch)
  \/ ClientSubscriptionError
  \/ ClientPublish

SpecClient == ClientInit /\ [][ClientNext]_vars


\* ============================================================ bot runtime
\* bot_environment of src/src/video_bot.cpp.  Its handlers run on the bus
\* client's read loop; `published` is what they hand to _client->publish.
\* The user's image callback runs inside on_frame_data: on_frame_data up to
\* the call is one action, each rtm_video_bot_message of the callback is
\* one, and the callback's return with the send_messages() that follows it is
\* one.
BotMessageKinds == {"ANALYSIS", "DEBUG", "CONTROL"}

BotLive == bot.started /\ bot.exit = "none"

\* main(): a missing argument returns 1; otherwise the client is created, the
\* frames and the metadata channel are subscribed, _bot_context is made and
\* the reactor runs.  Nothing in it calls the descriptor's control callback.
BotMain ==
  /\ ~bot.started /\ bot.exit = "none"
  /\ \E args \in BOOLEAN :
       bot' = IF args THEN [bot EXCEPT !.started = TRUE]
                      ELSE [bot EXCEPT !.exit = "usage"]
  /\ UNCHANGED <<kernel, client, pool, file, asub, mkv>>

\* on_data with the metadata subscription: on_metadata makes the decoder if
\* there is none and sets its metadata.
BotOnMetadata ==
  /\ BotLive /\ ~bot.incb /\ bot.meta < MaxFrames
  /\ bot' = [bot EXCEPT !.decoder = TRUE, !.meta = @ + 1]
  /\ UNCHANGED <<kernel, client, pool, file, asub, mkv>>

\* on_frame_data without its guard
DecoderAlways(decoder) == TRUE
\* if (!_decoder) return;  (negated)
DecoderMade(decoder) == decoder

\* on_data with the frames subscription: on_frame_data returns at once
\* without a decoder; otherwise it feeds the frame to the decoder and, when
\* that completes an image, calls the image callback.
BotOnFrameData ==
  /\ BotLive /\ ~bot.incb /\ bot.rx < MaxFrames
  /\ \E ready \in BOOLEAN :
       bot' = IF ~DecoderMade(bot.decoder) THEN [bot EXCEPT !.rx = @ + 1]
              ELSE [bot EXCEPT !.rx = @ + 1, !.fed = @ + 1,
                               !.incb = ready,
                               !.frames = IF ready THEN @ + 1 ELSE @]
  /\ UNCHANGED <<kernel, client, pool, file, asub, mkv>>

\* rtm_video_bot_message -> store_bot_message, called by the running callback:
\* push_back on the context's message_buffer.  A message is its kind and the
\* position at which it was stored (kinds is the record of all of them).
BotMessage(kind) ==
  /\ BotLive /\ bot.incb /\ Len(bot.buffer) < MaxMessages
  /\ bot' = [bot EXCEPT !.buffer = Append(@, [kind |-> kind, id |-> Len(bot.kinds) + 1]),
                        !.kinds = Append(@, kind)]
  /\ UNCHANGED <<kernel, client, pool, file, asub, mkv>>

\* send_message: the publish calls made for one message.  The switch has a
\* case for ANALYSIS and one for DEBUG, and no default.
SendMessage(message) ==
  CASE message.kind = "ANALYSIS" -> <<[channel |-> "/analysis", id |-> message.id]>>
    [] message.kind = "DEBUG" -> <<[channel |-> "/debug", id |-> message.id]>>
    [] OTHER -> <<>>

\* send_messages: send_message on every element from begin() to end(), then
\* clear().
RECURSIVE SendMessages(_)
SendMessages(buffer) ==
  IF buffer = <<>> THEN <<>>
  ELSE SendMessage(Head(buffer)) \o SendMessages(Tail(buffer))

\* the callback returns into on_frame_data, which calls send_messages()
BotCallbackReturn ==
  /\ BotLive /\ bot.incb
  /\ bot' = [bot EXCEPT !.published = @ \o SendMessages(bot.buffer),
                        !.buffer = <<>>, !.incb = FALSE]
  /\ UNCHANGED <<kernel, client, pool, file, asub, mkv>>

BotInit ==
  /\ KernelParked
  /\ client = NewClient
  /\ bot = NewBot
  /\ pool = NewPool
  /\ file = NewFile
  /\ asub = NewAsub
  /\ mkv = NewMkv

BotNext ==
  \/ BotMain \/ BotOnMetadata \/ BotOnFrameData
  \/ \E kind \in BotMessageKinds : BotMessage(kind)
  \/ BotCallbackReturn

SpecBot == BotInit /\ [][BotNext]_vars


\* ==================================================== pool job controller
\* pool_job_controller (src/src/pool_controller.h declares it; its member
\* functions are not part of the sources at hand and follow section 4.4 of
\* the specification).  One action is one directive of the pool channel, one
\* terminal event of a pipeline, or shutdown().
Jobs == 1..MaxJobs

PoolLive == ~pool.shutdown

\* start_job without the capacity check
AtCapacityNever(used, max) == FALSE
\* "if at capacity"
AtCapacity(used, max) == used >= max

\* on_data with action start_job: at capacity the directive is ignored and
\* logged; otherwise a pipeline is built for the job, run, and inserted into
\* running under the job's id.
PoolStartJob(j) ==
  /\ PoolLive
  /\ pool' =
       IF AtCapacity(Cardinality(pool.running), pool.max_streams_capacity)
         THEN [pool EXCEPT !.logged = @ \cup {j}, !.call = "start_job"]
         ELSE [pool EXCEPT !.running = @ \cup {j}, !.call = "start_job"]
  /\ UNCHANGED <<kernel, client, bot, file, asub, mkv>>

\* on_data with action stop_job: the pipeline of that id is cancelled and
\* removed from running.
PoolStopJob(j) ==
  /\ PoolLive
  /\ pool' = [pool EXCEPT !.running = @ \ {j}, !.call = "stop_job"]
  /\ UNCHANGED <<kernel, client, bot, file, asub, mkv>>

\* a running pipeline emits error: it is terminated and removed from running
PoolJobError(j) ==
  /\ PoolLive /\ j \in pool.running
  /\ pool' = [pool EXCEPT !.running = @ \ {j}, !.call = "job_error"]
  /\ UNCHANGED <<kernel, client, bot, file, asub, mkv>>

\* shutdown(): the timer is cancelled, the pool channel unsubscribed and every
\* running pipeline cancelled.
PoolShutdown ==
  /\ PoolLive
  /\ pool' = [pool EXCEPT !.running = {}, !.shutdown = TRUE, !.call = "shutdown"]
  /\ UNCHANGED <<kernel, client, bot, file, asub, mkv>>

PoolInit ==
  /\ KernelParked
  /\ client = NewClient
  /\ bot = NewBot
  /\ pool \in {[NewPool EXCEPT !.max_streams_capacity = c] : c \in 0..MaxCapacity}
  /\ file = NewFile
  /\ asub = NewAsub
  /\ mkv = NewMkv

PoolNext ==
  \/ \E j \in Jobs : PoolStartJob(j)
  \/ \E j \in Jobs : PoolStopJob(j)
  \/ \E j \in Jobs : PoolJobError(j)
  \/ PoolShutdown

SpecPool == PoolInit /\ [][PoolNext]_vars


\* ============================================================ file source
\* The pipelines of src/test/file_source_test.cpp:
\*   file_source(...)->process(...)  and
\*   (file_source(...) >> repeat_if(0, is_metadata))->process(...).
\* file_source and repeat_if are not part of the sources at hand; they follow
\* the specification (4.1, 4.2, the FrameId invariant of section 3, scenarios
\* 1 and 2 of section 8) and what the test expects of them.  One action is one
\* packet of the source travelling down to the subscriber of process(), which
\* asks for the next one after each.
Metadata == [type |-> "metadata", id |-> [i1 |-> 0, i2 |-> 0]]
Frame(i1, i2) == [type |-> "frame", id |-> [i1 |-> i1, i2 |-> i2]]

IsMetadata(p) == p.type = "metadata"
IsFrame(p) == p.type = "frame"

\* repeat_if that repeats nothing
ReinjectedNever(repeat, last) == <<>>
\* repeat_if(0, pred) on an item that does not match: the last item that
\* matched, if there was one, is emitted again before it
Reinjected(repeat, last) == IF repeat /\ last # <<>> THEN last ELSE <<>>

\* the source's single synthetic metadata item, at the start; repeat_if keeps
\* an item that matches and passes it on
FileEmitMetadata ==
  /\ file.pos = 0 /\ ~file.done
  /\ file' = [file EXCEPT !.pos = 1, !.out = Append(@, Metadata),
                          !.last = IF file.repeat THEN <<Metadata>> ELSE @]
  /\ UNCHANGED <<kernel, client, bot, pool, asub, mkv>>

\* an id range that starts where the one before began
FirstAfterSame(i2) == i2
\* the id range of a frame starts right after the one before
FirstAfter(i2) == i2 + 1

\* the next container packet, authoritative over `span` epochs, becomes an
\* encoded frame
FileEmitFrame(span) ==
  /\ file.pos >= 1 /\ file.pos <= file.n /\ ~file.done
  /\ LET i1 == IF file.pos = 1 THEN 0 ELSE FirstAfter(file.i2) IN
       file' = [file EXCEPT
                  !.pos = @ + 1, !.i2 = i1 + span - 1,
                  !.out = @ \o Reinjected(file.repeat, file.last)
                            \o <<Frame(i1, i1 + span - 1)>>]
  /\ UNCHANGED <<kernel, client, bot, pool, asub, mkv>>

\* the source is exhausted: END_OF_STREAM becomes complete downstream
FileComplete ==
  /\ file.pos = file.n + 1 /\ ~file.done
  /\ file' = [file EXCEPT !.done = TRUE]
  /\ UNCHANGED <<kernel, client, bot, pool, asub, mkv>>

FileInit ==
  /\ KernelParked
  /\ client = NewClient
  /\ bot = NewBot
  /\ pool = NewPool
  /\ file \in {[NewFile EXCEPT !.n = n, !.repeat = r] :
                 n \in 0..MaxPackets, r \in BOOLEAN}
  /\ asub = NewAsub
  /\ mkv = NewMkv

FileNext ==
  \/ FileEmitMetadata
  \/ \E span \in 1..MaxSpan : FileEmitFrame(span)
  \/ FileComplete

SpecFile == FileInit /\ [][FileNext]_vars


\* ===================================================== async subscription
\* async_publisher_impl::sub called from two threads: the subscriber's, which
\* calls request, and the producer's, which calls on_next.  Every access to
\* the atomic counter is one step.

\* request(n): `outstanding += n`, one atomic read-modify-write
AsubRequest(n) ==
  /\ asub.requested + n <= MaxDemand
  /\ asub' = [asub EXCEPT !.outstanding = @ + n, !.requested = @ + n]
  /\ UNCHANGED <<kernel, client, bot, pool, file, mkv>>

\* on_next, first step: `outstanding.fetch_sub(1)`
AsubFetchSub ==
  /\ asub.pc = "idle" /\ asub.pushed < MaxLen
  /\ asub' = [asub EXCEPT !.outstanding = @ - 1, !.old = asub.outstanding,
                          !.pc = "fetched", !.pushed = @ + 1]
  /\ UNCHANGED <<kernel, client, bot, pool, file, mkv>>

\* on_next, second step: `outstanding++; return;` when fetch_sub returned a
\* value <= 0
AsubCompensate ==
  /\ asub.pc = "fetched" /\ PastDemand(asub.old)
  /\ asub' = [asub EXCEPT !.outstanding = @ + 1, !.pc = "idle"]
  /\ UNCHANGED <<kernel, client, bot, pool, file, mkv>>

\* on_next, second step: `_sink.on_next(std::move(t))` otherwise
AsubDeliver ==
  /\ asub.pc = "fetched" /\ ~PastDemand(asub.old)
  /\ asub' = [asub EXCEPT !.delivered = @ + 1, !.pc = "idle"]
  /\ UNCHANGED <<kernel, client, bot, pool, file, mkv>>

\* the subscription as `new sub(s)` leaves it: the counter is not initialised
AsubInit ==
  /\ KernelParked
  /\ client = NewClient
  /\ bot = NewBot
  /\ pool = NewPool
  /\ file = NewFile
  /\ asub \in {[NewAsub EXCEPT !.outstanding = v] : v \in Indeterminate}
  /\ mkv = NewMkv

AsubNext ==
  \/ \E n \in 1..MaxDemand : AsubRequest(n)
  \/ AsubFetchSub \/ AsubCompensate \/ AsubDeliver

SpecAsub == AsubInit /\ [][AsubNext]_vars


\* ============================================================== mkv sink
\* mkv_sink_impl of src/src/mkv_sink.cpp.  One action is one call of a
\* subscriber method.  Nothing in the repository catches an exception, so a
\* throw ends the process.
MkvLive == mkv.exit = "none" /\ ~mkv.deleted /\ mkv.subscribed

\* the trailing _src->request(1) of on_next
MkvRequested(m, c) == [m EXCEPT !.requests = @ + 1, !.call = c]

\* on_subscribe(): _src = &s; _src->request(1)
MkvOnSubscribe ==
  /\ mkv.exit = "none" /\ ~mkv.subscribed
  /\ mkv' = MkvRequested([mkv EXCEPT !.subscribed = TRUE], "on_subscribe")
  /\ UNCHANGED <<kernel, client, bot, pool, file, asub>>

\* the calls of on_encoded_metadata that can fail, in order
InitSteps == <<"stream", "params", "open", "header">>
Failures == {InitSteps[i] : i \in 1..Len(InitSteps)} \cup {"none"}

\* if (_video_stream_index < 0)
NeedsInit(index) == index < 0

\* The body of that if, with `fail` the call that fails: avformat_new_stream,
\* then _video_stream_index = video_stream->index, then
\* avcodec_parameters_from_context, avio_open and avformat_write_header, each
\* followed by a throw on failure.
InitSink(m, fail) ==
  IF fail = "stream" THEN [m EXCEPT !.exit = "throw"]
  ELSE LET created == [m EXCEPT !.streams = @ + 1, !.index = m.streams] IN
       IF fail \in {"params", "open"} THEN [created EXCEPT !.exit = "throw"]
       ELSE LET open == [created EXCEPT !.opened = TRUE] IN
            IF fail = "header" THEN [open EXCEPT !.exit = "throw"]
            ELSE [open EXCEPT !.written = Append(@, "header")]

\* on_next with an encoded_metadata.  size: the packet has an image_size;
\* without one BOOST_VERIFY fails, and with assertions compiled out
\* image_size->width reads an empty optional, which either crashes or yields
\* some width.
MkvOnMetadata ==
  /\ MkvLive /\ mkv.metas + mkv.frames < MaxSinkPackets
  /\ \E size \in BOOLEAN, fail \in Failures, fault \in BOOLEAN :
       LET m == [mkv EXCEPT !.metas = @ + 1, !.call = "on_metadata"] IN
       mkv' =
         IF ~size /\ ~mkv.ndebug THEN [m EXCEPT !.exit = "abort"]
         ELSE IF ~NeedsInit(mkv.index) THEN MkvRequested(m, "on_metadata")
         ELSE IF ~size /\ fault THEN [m EXCEPT !.exit = "crash"]
         ELSE LET r == InitSink(m, fail) IN
              IF r.exit = "none" THEN MkvRequested(r, "on_metadata") ELSE r
  /\ UNCHANGED <<kernel, client, bot, pool, file, asub>>

\* on_encoded_frame() without its first line
WritesAlways(index) == TRUE
\* if (_video_stream_index < 0) return;
Writes(index) == index >= 0

\* on_next with an encoded_frame; ok: av_write_frame succeeds
MkvOnFrame ==
  /\ MkvLive /\ mkv.metas + mkv.frames < MaxSinkPackets
  /\ \E ok \in BOOLEAN :
       LET m == [mkv EXCEPT !.frames = @ + 1, !.call = "on_frame"] IN
       mkv' =
         IF ~Writes(mkv.index)
           THEN MkvRequested([m EXCEPT !.dropped = @ + 1], "on_frame")
         ELSE IF ~ok THEN [m EXCEPT !.exit = "throw"]
         ELSE MkvRequested([m EXCEPT !.written = Append(@, "frame")], "on_frame")
  /\ UNCHANGED <<kernel, client, bot, pool, file, asub>>

\* on_complete(): delete this; the format context's deleter writes the
\* trailer when the file was opened.
MkvOnComplete ==
  /\ MkvLive
  /\ mkv' = [mkv EXCEPT !.deleted = TRUE,
                        !.written = IF mkv.opened THEN Append(@, "trailer") ELSE @,
                        !.call = "on_complete"]
  /\ UNCHANGED <<kernel, client, bot, pool, file, asub>>

\* on_error(): exit(1)
MkvOnError ==
  /\ MkvLive
  /\ mkv' = [mkv EXCEPT !.exit = "exit", !.call = "on_error"]
  /\ UNCHANGED <<kernel, client, bot, pool, file, asub>>

MkvInit ==
  /\ KernelParked
  /\ client = NewClient
  /\ bot = NewBot
  /\ pool = NewPool
  /\ file = NewFile
  /\ asub = NewAsub
  /\ mkv \in {[NewMkv EXCEPT !.ndebug = b] : b \in BOOLEAN}

MkvNext ==
  \/ MkvOnSubscribe \/ MkvOnMetadata \/ MkvOnFrame \/ MkvOnComplete
  \/ MkvOnError

SpecMkv == MkvInit /\ [][MkvNext]_vars


\* ================================================================ claims
Count(e) == Cardinality({i \in 1..Len(log) : log[i].e = e})
GenSrc == cfg.src.kind \in {"of", "range"}
SrcLen == cfg.src.to - cfg.src.from
NoFlat == ~HasFlat(cfg.chain)
TakeAt(s) == cfg.chain[s].k = "take"
\* source >> take(n), nothing else
OneTake == Len(cfg.chain) = 1 /\ cfg.chain[1].k = "take"
TakeN == cfg.chain[1].n
IsPrefix(a, b) == Len(a) <= Len(b) /\ SubSeq(b, 1, Len(a)) = a
\* what a subscriber of source >> take(n) is to see, for a source longer than n
FirstN(n) ==
  <<Ev("subscribe", 0)>>
    \o [i \in 1..n |-> Ev("next", IF cfg.src.kind = "of" THEN i ELSE cfg.src.from + i - 1)]
    \o <<Ev("complete", 0)>>

\* C1 -- demand bound: for a publisher built from of/range, piped through any
\* of the chains of map, take, flat_map and do_finally and subscribed once, the
\* number of next events delivered to the subscriber never exceeds the sum of
\* the n it has passed to request, whether it called request from outside or
\* from inside on_subscribe/on_next.
C1_DemandBound == GenSrc => Count("next") <= sink.requested

\* C1 witness: a generator behind an operator has used up the whole demand,
\* part of which was requested while an earlier item was being delivered.
C1_Witness ==
  /\ GenSrc /\ K >= 1 /\ ~uaf
  /\ Count("next") = MaxDemand /\ sink.requested = MaxDemand
  /\ sink.reentered

\* C2 -- terminal uniqueness: with an of/range/empty/error source, every
\* subscriber of the pipeline (the terminal one, every operator instance and
\* every fwd_sub) is sent at most one complete or error, and nothing after it.
C2_TerminalUniqueness ==
  cfg.src.kind # "async" =>
    /\ Count("complete") + Count("error") <= 1
    /\ \A i \in 1..Len(log) : Terminal(log[i]) => i = Len(log)
    /\ \A s \in 1..K : ops[s].term <= 1 /\ ~ops[s].late
    /\ \A k \in InnerIds : fwds[k].term <= 1 /\ ~fwds[k].late

\* C3 -- cancellation is silent: once the subscriber of a generator-backed
\* pipeline has called cancel(), from outside or from inside on_next, nothing
\* more is delivered to it.
C3_CancelSilent == (GenSrc /\ sink.cancelled) => Len(log) = sink.cancelAt

\* C4 -- subscribe handshake: subscribe(sink) makes the publisher call
\* sink.on_subscribe exactly once, and before any next, complete or error.
C4_SubscribeHandshake ==
  /\ Count("subscribe") <= 1
  /\ log # <<>> => log[1].e = "subscribe"
  /\ Idle => Count("subscribe") = 1

\* C5 -- do_finally(f) runs f exactly once per terminated subscription: never
\* twice, and once the instance is gone (after complete, error or cancel) it
\* has run.
C5_FinallyOnce ==
  \A s \in 1..K :
    cfg.chain[s].k = "do_finally" =>
      /\ ops[s].fcalls <= 1
      /\ (status # "new" /\ ~ops[s].alive) => ops[s].fcalls = 1

\* C6 -- take(n) count: a subscriber of source >> take(n) that has asked for
\* more than min(n, L) items of a source of length L and did not cancel has,
\* once the calls have returned, received exactly min(n, L) next events and
\* exactly one complete; n = 0 included.
C6_TakeCount ==
  (OneTake /\ GenSrc /\ ~sink.cancelled /\ Idle
     /\ sink.requested >= Min(TakeN, SrcLen) + 1)
    => (Count("next") = Min(TakeN, SrcLen) /\ Count("complete") = 1)

\* C7 as claimed -- when take(n) has forwarded its n-th item and the source
\* still has items, the source is cancelled only after complete was delivered
\* downstream.
C7_CompleteBeforeCancel ==
  \A s \in 1..K :
    (NoFlat /\ GenSrc /\ TakeAt(s) /\ SrcLen > cfg.chain[s].n /\ ~sink.cancelled
       /\ srcs[0].ncancel > 0)
      => Count("complete") >= 1

\* C7 as amended -- when take(n) has forwarded its n-th item (n >= 1), complete
\* is delivered downstream only after cancel was called on the upstream
\* subscription.
C7_CancelBeforeComplete ==
  \A s \in 1..K :
    (NoFlat /\ TakeAt(s) /\ cfg.chain[s].n >= 1 /\ ops[s].remaining = 0
       /\ Count("complete") >= 1)
      => srcs[0].ncancel >= 1

\* C7 witness: take has hit its count on a longer source; the source saw the
\* cancel and the subscriber the complete.
C7_Witness ==
  /\ OneTake /\ GenSrc /\ TakeN >= 1 /\ SrcLen > TakeN /\ ~uaf
  /\ ops[1].remaining = 0 /\ srcs[0].ncancel = 1
  /\ Count("next") = TakeN /\ Count("complete") = 1

\* C8 -- take-then-cancel: for source >> take(n) with the source longer than n
\* and a subscriber that does not cancel, the source's subscription sees
\* cancel at most once and no request after it, the subscriber sees a prefix
\* of the first n items followed by complete, and once n items (at least one
\* request) have been asked for and the calls have returned it has seen all
\* of it and the source exactly one cancel.
C8_TakeThenCancel ==
  (OneTake /\ GenSrc /\ SrcLen > TakeN /\ ~sink.cancelled) =>
    /\ srcs[0].ncancel <= 1 /\ ~srcs[0].lateReq
    /\ IsPrefix(log, FirstN(TakeN))
    /\ (Idle /\ sink.requested >= TakeN /\ sink.requested >= 1)
         => (log = FirstN(TakeN) /\ srcs[0].ncancel = 1)

\* C9 -- take(n) demand cap: whatever the subscriber requests, from outside or
\* from inside on_next, the demand take has passed upstream adds up to at most
\* n, and 0 <= _outstanding <= _remaining whenever a method of the pipeline
\* can observe the instance.
C9_TakeDemandCap ==
  \A s \in 1..K :
    TakeAt(s) =>
      /\ ops[s].fwdreq <= cfg.chain[s].n
      /\ 0 <= ops[s].outstanding
      /\ ops[s].outstanding <= ops[s].remaining

\* C10 -- flat_map keeps one inner subscription at a time: in a run that uses
\* no deleted object, no upstream item reaches flat_map's on_next while an
\* earlier inner publisher has not completed.
C10_OneInnerAtATime == \A s \in 1..K : uaf \/ ~ops[s].overlap

\* In a step: the frame now on top of the stack, and whether the method that
\* was running has just called it (a call to another object or method, as
\* opposed to a return or a move within the running method).
Callee == stack'[Len(stack')]
CallMade ==
  /\ Running /\ stack' # <<>> /\ Len(stack') >= Len(stack)
  /\ (Len(stack') > Len(stack) \/ Callee.o # Top.o \/ Callee.m # Top.m)

\* C11 -- error forwarding: an operator instance (map, take, do_finally,
\* flat_map) whose on_error(msg) is called passes on_error with the same msg to
\* its downstream in that very call, and from then on calls no other object:
\* nothing more downstream, no request or cancel upstream.
C11_ErrorForwarding ==
  [][\A s \in 1..K :
       (Running /\ Top.o = OpRef(s) /\ status' = "run") =>
         IF Top.m = "on_error" /\ Top.pc = 0 /\ ops[s].erx = 0
           THEN CallMade /\ Callee = Fr(Down(s), "on_error", Top.a)
           ELSE ops[s].erx # 0 => ~(CallMade /\ Callee.o # OpRef(s))]_vars

\* C12 -- flat_map inner error: once the publisher returned by f has signalled
\* error and fwd_sub::on_error has returned, the error has gone downstream
\* once, and flat_map is terminated: _active is false and _fwd_sub released.
C12_InnerErrorTerminates ==
  \A k \in InnerIds :
    (fwds[k].erx # 0 /\ ~fwds[k].alive) =>
      /\ fwds[k].term = 1
      /\ ~ops[FM].active
      /\ ops[FM].fwd_sub = 0

\* C13 -- cancel propagation: when the subscriber's cancel() has returned,
\* cancel() has been called exactly once on every operator instance of the
\* chain and on the root source's subscription, generator or async.
C13_CancelPropagation ==
  (sink.cancelled /\ Idle) =>
    /\ srcs[0].ncancel = 1
    /\ \A s \in 1..K : ops[s].ncancel = 1

\* frames of method m of object o on the call stack
Depth(o, m) == Cardinality({i \in 1..Len(stack) : stack[i].o = o /\ stack[i].m = m})

\* C14 -- drain-loop reentrancy: no generator subscription ever has two of
\* its drain() loops or two calls of its gen_fn on the stack, no flat_map
\* instance two of its drain() loops; and when all calls have returned, a live
\* and active generator subscription is owed nothing, and neither is a live
\* and active flat_map instance over a generator: what was requested from
\* inside next has been served by the loop that was running.
C14_DrainReentrancy ==
  /\ \A j \in 0..MaxLen :
       Depth(SrcRef(j), "drain") <= 1 /\ Depth(SrcRef(j), "gen_fn") <= 1
  /\ \A s \in 1..K : Depth(OpRef(s), "drain") <= 1
  /\ Idle =>
       /\ \A j \in 0..MaxLen :
            (srcs[j].kind = "gen" /\ srcs[j].alive /\ srcs[j].active)
              => srcs[j].outstanding = 0
       /\ \A s \in 1..K :
            (cfg.chain[s].k = "flat_map" /\ cfg.src.kind # "async"
               /\ ops[s].alive /\ ops[s].active)
              => ops[s].outstanding = 0

\* C14 witness: behind flat_map over lists, the subscriber asked for part of
\* its demand from inside on_next and has been served all of it by the time
\* the calls returned.
C14_Witness ==
  /\ Idle /\ ~uaf /\ GenSrc /\ HasFlat(cfg.chain) /\ cfg.inner.kind = "of"
  /\ sink.reentered /\ sink.requested = MaxDemand /\ Count("next") = MaxDemand

\* C15 -- the async source drops past demand: observer.on_next(t) with the
\* pending-demand counter at 0 (or below) calls nobody, delivers nothing and
\* leaves the counter where it was, at 0; with the counter at k > 0 it passes
\* t to the subscriber and leaves k - 1.  The
\* subscriber of the async source is handed an item only by the push of that
\* very item, so an item that was dropped is never delivered later.
C15_AsyncDropsPastDemand ==
  [][cfg.src.kind = "async" =>
       /\ (Running /\ Top.o = SrcRef(0) /\ Top.m = "on_next" /\ Top.pc = 1
              /\ status' = "run") =>
            IF Top.n <= 0
              THEN ~CallMade /\ log' = log /\ srcs'[0].outstanding = Top.n
              ELSE /\ CallMade /\ Callee = Fr(SrcSink(0), "on_next", Top.a)
                   /\ srcs'[0].outstanding = Top.n - 1
       /\ (CallMade /\ Callee.o = SrcSink(0) /\ Callee.m = "on_next") =>
            (Top.o = SrcRef(0) /\ Top.a = pushed /\ Top.n > 0)]_vars

\* C15 witness: of three items pushed at a bare async source, the first came
\* before any demand and the third after the demand of one was used up; only
\* the second was delivered.
C15_Witness ==
  /\ cfg.src.kind = "async" /\ K = 0 /\ Idle
  /\ pushed = MaxLen /\ sink.requested = 1 /\ srcs[0].outstanding = 0
  /\ log = <<Ev("subscribe", 0), Ev("next", 2)>>

\* the log of a subscriber that was subscribed, handed items and completed
Collected(items) ==
  <<Ev("subscribe", 0)>> \o [i \in 1..Len(items) |-> Ev("next", items[i])]
    \o <<Ev("complete", 0)>>
IsNext(e) == e.e = "next"
Collector == cfg.sub = "process"

\* C16 -- round trip map: the collector of process() subscribed to
\* of(<<1, .., L>>) >> map(f) is handed f(1), .., f(L) in this order and then
\* one complete, and nothing else.
C16_MapRoundTrip ==
  (Collector /\ cfg.src.kind = "of" /\ cfg.chain = <<OpMap>>) =>
    LET expected == Collected([i \in 1..SrcLen |-> Fn(i)])
    IN /\ IsPrefix(log, expected)
       /\ Idle => log = expected

\* C16 witness: the longest list has gone through map to the collector.
C16_Witness ==
  /\ Collector /\ cfg.src.kind = "of" /\ cfg.chain = <<OpMap>> /\ SrcLen = MaxLen
  /\ Idle /\ ~uaf /\ Count("next") = MaxLen /\ Count("complete") = 1

\* C17 -- round trip flat_map identity: the collector subscribed to
\* of(<<1, .., L>>) >> flat_map(x => of(<<x>>)), L = 0 included, is handed
\* 1, .., L in this order and then one complete, and nothing else.
C17_FlatMapIdentity ==
  (Collector /\ cfg.src.kind = "of" /\ cfg.chain = <<OpFlat>>
     /\ cfg.inner = [kind |-> "of", len |-> 1]) =>
    LET expected == Collected([i \in 1..SrcLen |-> i])
    IN /\ IsPrefix(log, expected)
       /\ Idle => log = expected

\* C17 witness: the longest list has gone through flat_map, one fwd_sub per
\* item, to the collector.
C17_Witness ==
  /\ Collector /\ cfg.src.kind = "of" /\ cfg.chain = <<OpFlat>>
  /\ cfg.inner = [kind |-> "of", len |-> 1] /\ SrcLen = MaxLen
  /\ Idle /\ ~uaf /\ Cardinality(Made) = MaxLen
  /\ Count("next") = MaxLen /\ Count("complete") = 1

\* C18 -- round trip range/take: what the collector of range(a, b) >> take(k),
\* k >= 1, is handed as items is a, a + 1, .., a + min(k, b - a) - 1 in this
\* order: always a prefix of it, and all of it once complete was delivered or
\* the calls have returned.  b itself is never emitted.
C18_RangeTake ==
  (Collector /\ cfg.src.kind = "range" /\ OneTake /\ TakeN >= 1) =>
    LET expected == [i \in 1..Min(TakeN, SrcLen) |-> Ev("next", cfg.src.from + i - 1)]
        items == SelectSeq(log, IsNext)
    IN /\ IsPrefix(items, expected)
       /\ (Idle \/ Count("complete") >= 1) => items = expected

\* C18 witness: a range shorter than k has been collected whole, up to b - 1.
C18_Witness ==
  /\ Collector /\ cfg.src.kind = "range" /\ OneTake
  /\ SrcLen >= 2 /\ TakeN > SrcLen /\ Idle /\ ~uaf
  /\ Count("next") = SrcLen /\ log[Len(log) - 1] = Ev("next", cfg.src.to - 1)
  /\ Count("complete") = 1

\* merge(ps) is of(ps) >> flat_map(p => p); ps[x] is the inner publisher of
\* item x.  What its subscriber is to see: all of ps[1], then all of ps[2], ..
MergeItems ==
  [i \in 1..(SrcLen * cfg.inner.len) |-> ((i - 1) \div cfg.inner.len) + 1]
IsMerge ==
  /\ cfg.src.kind = "of" /\ cfg.chain = <<OpFlat>>
  /\ cfg.inner.kind \in {"of", "empty"}

C20_SingleSubscription == pub.subs <= 1

\* ------------------------------------------------------------------ C21
\* C21 (as stated): start() and stop() are idempotent: start() on a running
\* client, and stop() on a stopped or stopping one, succeed without error and
\* leave the client state unchanged.
C21_StartStopIdempotent ==
  [][(\/ client'.call = "start" /\ client.state = "Running"
      \/ client'.call = "stop" /\ client.state \in {"Stopped", "PendingStopped"})
       => client'.exit = "none" /\ client'.state = client.state]_vars

\* C21 (amended): start() and stop() are guarded, not idempotent.  start()
\* requires a Stopped client and stop() a Running one; with assertions
\* compiled in, a call in any other state ends the process in the failed
\* BOOST_VERIFY.  A call in the required state that returns has moved the
\* client: start() to Running with a read pending, stop() to PendingStopped.
C21_StartStopGuarded ==
  [][/\ (client'.call = "start" /\ client.state # "Stopped" /\ ~client.ndebug)
          => client'.exit = "abort"
     /\ (client'.call = "stop" /\ client.state # "Running" /\ ~client.ndebug)
          => client'.exit = "abort"
     /\ (client'.call = "start" /\ client.state = "Stopped" /\ client'.exit = "none")
          => client'.state = "Running" /\ client'.reading
     /\ (client'.call = "stop" /\ client.state = "Running" /\ client'.exit = "none")
          => client'.state = "PendingStopped"]_vars

\* start() has been called on a running client, assertions compiled in
C21_Witness ==
  /\ client.call = "start" /\ client.state = "Running"
  /\ ~client.ndebug /\ client.exit = "abort"

\* ------------------------------------------------------------------ C22
\* the ids of the messages published so far, in order
PublishedIds == [j \in 1..Len(bot.published) |-> bot.published[j].id]

\* C22: message flush ordering.  While the image callback runs, none of the
\* messages it has stored is published; once the flush after it has finished,
\* every message stored so far has been published exactly once, in the order
\* it was stored, and the message buffer is empty.
C22_FlushOrdering ==
  /\ bot.incb =>
       \A i \in 1..Len(bot.buffer) : \A j \in 1..Len(bot.published) :
          bot.published[j].id # bot.buffer[i].id
  /\ ~bot.incb =>
       /\ bot.buffer = <<>>
       /\ PublishedIds = [i \in 1..Len(bot.kinds) |-> i]

\* ------------------------------------------------------------------ C23
\* the sub-channel of a kind of message (satori_video.h)
Suffix(kind) ==
  CASE kind = "ANALYSIS" -> "/analysis"
    [] kind = "DEBUG" -> "/debug"
    [] kind = "CONTROL" -> "/control"

\* C23: channel routing by kind.  After a flush every message stored so far,
\* of kind ANALYSIS, DEBUG or CONTROL, has been published to the sub-channel
\* of its kind; none was discarded.
C23_ChannelRouting ==
  ~bot.incb =>
    \A i \in 1..Len(bot.kinds) : \E j \in 1..Len(bot.published) :
       bot.published[j] = [channel |-> Suffix(bot.kinds[i]), id |-> i]

\* ------------------------------------------------------------------ C24
\* C24: a frame message received before any metadata message was processed is
\* dropped silently: the image callback is not called, nothing is stored or
\* published, the runtime goes on; a frame message received after a metadata
\* message is given to the decoder.
C24_FrameBeforeMetadata ==
  [][bot'.rx = bot.rx + 1 =>
       IF bot.meta = 0
         THEN bot' = [bot EXCEPT !.rx = @ + 1]
         ELSE bot'.fed = bot.fed + 1 /\ bot'.exit = "none"]_vars

\* a frame came first and was dropped; metadata came; the next frame was
\* decoded, the callback ran and its message was published
C24_Witness ==
  /\ bot.rx = 2 /\ bot.meta = 1 /\ bot.fed = 1 /\ bot.frames = 1
  /\ ~bot.incb /\ Len(bot.published) = 1

\* ------------------------------------------------------------------ C25
\* C25: control callback at initialization.  Once the bot has started, the
\* control callback has been called (with the synthetic configure message),
\* hence before any image callback.
C25_ControlAtInit == bot.started => bot.ctrl >= 1

\* ------------------------------------------------------------------ C26
\* C26: pool capacity.  After every directive the number of running jobs is at
\* most max_streams_capacity, and a start_job received at capacity leaves the
\* running set as it was.
C26_PoolCapacity ==
  [][/\ Cardinality(pool'.running) <= pool.max_streams_capacity
     /\ (pool'.call = "start_job"
           /\ Cardinality(pool.running) >= pool.max_streams_capacity)
          => pool'.running = pool.running]_vars

\* a start_job was ignored with every slot taken
C26_Witness ==
  /\ pool.call = "start_job" /\ pool.logged # {}
  /\ pool.max_streams_capacity = MaxCapacity
  /\ Cardinality(pool.running) = MaxCapacity

\* ------------------------------------------------------------------ C27
\* what the subscriber of process() has seen of each type
FramesSeen == SelectSeq(file.out, IsFrame)
MetadataSeen == SelectSeq(file.out, IsMetadata)

\* C27: FrameId monotonicity.  Of the encoded frames the file source has
\* emitted, the first has i1 = 0, every one has i1 <= i2, and each starts
\* right after the one before: next.i1 = prev.i2 + 1.
C27_FrameIdMonotonic ==
  /\ \A k \in 1..Len(FramesSeen) : FramesSeen[k].id.i1 <= FramesSeen[k].id.i2
  /\ FramesSeen # <<>> => FramesSeen[1].id.i1 = 0
  /\ \A k \in 1..(Len(FramesSeen) - 1) :
       FramesSeen[k + 1].id.i1 = FramesSeen[k].id.i2 + 1

\* a whole file of frames, the widest ids, read to the end
C27_Witness ==
  /\ ~file.repeat /\ file.done /\ file.n = MaxPackets
  /\ Len(FramesSeen) = MaxPackets
  /\ FramesSeen[MaxPackets].id.i2 = MaxPackets * MaxSpan - 1

\* ------------------------------------------------------------------ C28
\* C28: repeat_if(0, is_metadata) on one metadata packet followed by N frames:
\* when the stream has completed the subscriber has seen N + 1 metadata
\* packets, the original and one more right before every frame, and all N
\* frames in their order.
C28_RepeatMetadata ==
  (file.repeat /\ file.done) =>
    /\ Len(MetadataSeen) = file.n + 1
    /\ Len(FramesSeen) = file.n
    /\ \A k \in 1..(Len(FramesSeen) - 1) :
         FramesSeen[k + 1].id.i1 = FramesSeen[k].id.i2 + 1
    /\ \A i \in 1..Len(file.out) :
         IsFrame(file.out[i]) => i > 1 /\ IsMetadata(file.out[i - 1])

C28_Witness ==
  /\ file.repeat /\ file.done /\ file.n = MaxPackets
  /\ Len(MetadataSeen) = MaxPackets + 1

\* ------------------------------------------------------------------ C29
\* C29: one-at-a-time pull.  The subscriber of process() and the mkv sink
\* call request(1), and nothing else, in on_subscribe and at the end of
\* every on_next; their outstanding demand (requested minus received) is
\* always 0 or 1; and they request nothing once a terminal event has reached
\* them.
C29_OneAtATimePull ==
  [][PullsOne(cfg.sub) =>
       /\ (Running /\ IsSink(Top) /\ Top.m \in {"on_subscribe", "on_next"}
             /\ status' = "run")
            => CallMade /\ Callee = Fr(SinkUp, "request", 1)
       /\ (sink'.requested - Count("next")') \in {0, 1}
       /\ sink'.requested > sink.requested => ~Terminated]_vars

\* ------------------------------------------------------------------ C30
\* a terminal event has been delivered to flat_map's downstream subscriber
FlatDelivered == IF FM = K THEN Terminated ELSE ops[FM + 1].term >= 1

\* C30: flat_map completion.  Once the outer upstream has completed and no
\* inner publisher is left running, flat_map delivers complete downstream
\* without a further request: whenever no call is in progress, a flat_map
\* that has seen its upstream complete, holds no inner subscription and was
\* not cancelled has terminated its subscriber, also when the demand was
\* exactly the number of items.
C30_FlatMapCompletes ==
  (/\ Idle /\ ~uaf /\ HasFlat(cfg.chain)
   /\ ops[FM].source_complete /\ ops[FM].fwd_sub = 0 /\ ops[FM].ncancel = 0)
    => FlatDelivered

\* C31 -- generator drain termination: for range(from, to) with any from and
\* to, from > to included, the drain loop ends: every call of the gen_fn
\* that drain makes returns having emitted at least one item or having
\* delivered complete (which ends the loop), so that no turn of the loop
\* leaves the demand and the activity of the subscription as it found them.
C31_DrainTerminates ==
  [][(Running /\ IsGen(Top) /\ Top.m = "gen_fn" /\ Top.o = <<"src", 0>>
        /\ cfg.src.kind = "range" /\ stack' = Rest)
      => (Top.i > 0 \/ ~srcs'[0].active)]_vars

\* C32 -- flat_map drain termination: whatever the inner publisher, the
\* demand flat_map has forwarded to a live inner subscription and that the
\* subscription has not served yet never exceeds the demand flat_map's own
\* downstream has outstanding; so an inner subscription that answers request
\* with neither an item nor complete (an async source with nothing to emit)
\* is asked once and drain then waits: it is not asked again in a loop.
C32_FlatDrainWaits ==
  (status = "run" /\ HasFlat(cfg.chain) /\ ops # <<>>) =>
    \A k \in InnerIds :
      (srcs[k].alive /\ srcs[k].active /\ ops[FM].alive) =>
        srcs[k].outstanding <= ops[FM].outstanding

\* C33 -- flat_map stops on cancel: once cancel() has been called on a
\* flat_map instance, from outside or from inside the downstream's on_next
\* while drain is looping with demand left, that instance calls request on
\* nothing any more (neither its outer upstream nor an inner subscription) and
\* applies f to no further item.
C33_FlatStopsOnCancel ==
  [][(Running /\ HasFlat(cfg.chain) /\ ops # <<>> /\ ops[FM].ncancel > 0
        /\ Top.o = OpRef(FM) /\ status' = "run")
      => /\ ~(CallMade /\ Callee.m = "request")
         /\ ~(Top.m = "on_next" /\ Top.pc = 0)]_vars

\* C34 -- flat_map upstream demand: flat_map asks its outer upstream for one
\* item at a time and not again before that request is answered, so the
\* demand pending at the source of a pipeline through flat_map (only map, which
\* passes request on as it is, can stand between the two) is never more than
\* one; in particular a downstream request that arrives while an async upstream
\* still owes the item of the previous request(1) issues no second one.
C34_FlatUpstreamDemand ==
  (status = "run" /\ HasFlat(cfg.chain)) => srcs[0].outstanding <= 1

\* ------------------------------------------------------------------ C35
\* C35: the async source under interleaving.  However the subscriber's
\* request(n) calls and the steps of the producer's on_next calls interleave,
\* the items delivered never outnumber the demand requested so far, and once
\* some call has been made and none is under way the counter is not negative
\* and no demand is lost: delivered plus pending is the demand requested.
C35_AsyncInterleaving ==
  /\ asub.delivered <= asub.requested
  /\ (asub.pc = "idle" /\ asub.requested + asub.pushed > 0) =>
       /\ asub.outstanding >= 0
       /\ asub.delivered + asub.outstanding = asub.requested

\* ------------------------------------------------------------------ C36
\* C36: data gating.  The client calls on_data for a subscription only while
\* the record of that subscription is Current; a data frame that arrives
\* after unsubscribe, while the record is PendingUnsubscribe, is dropped.
C36_DataGating ==
  [][client'.call = "on_data" => client.subs[client'.ch].status = "Current"]_vars

\* ------------------------------------------------------------------ C37
\* C37: reply matching.  However the client's subscribe_channel and
\* unsubscribe calls interleave with the server's replies, the reply to a
\* request the client has sent finds a record whose pending_request_id is the
\* id of the reply and whose status is the pending status of that request; in
\* particular an unsubscribe called before the subscribe confirmation has
\* arrived does not make that confirmation an unexpected one.
C37_ReplyMatching ==
  [][(client'.call = "reply" /\ client.wire # <<>> /\ client'.wire = Tail(client.wire))
      => /\ Waiting(Head(client.wire).id) # {}
         /\ \A c \in Waiting(Head(client.wire).id) :
              client.subs[c].status = Expected(Head(client.wire))
         /\ client'.exit = "none"]_vars

\* ------------------------------------------------------------------ C38
\* C38: protocol errors.  The handler of an rtm/subscribe/error or
\* rtm/unsubscribe/error reply that a record is waiting for calls on_error
\* once, with SubscribeError or UnsubscribeError, and erases that record and
\* no other; the handler of rtm/subscription/error calls on_error once with
\* SubscriptionError and leaves every record as it is.
C38_ProtocolErrors ==
  [][/\ (/\ client'.call = "reply" /\ ~client'.ok /\ client'.exit = "none"
         /\ client.wire # <<>> /\ client'.wire = Tail(client.wire)
         /\ Waiting(Head(client.wire).id) # {})
          => LET req == Head(client.wire)
                 c == CHOOSE x \in Waiting(req.id) : TRUE
             IN /\ client'.errors = Append(client.errors, ErrorOf(req))
                /\ client'.subs[c] = NoSub
                /\ \A d \in Channels \ {c} : client'.subs[d] = client.subs[d]
     /\ client'.call = "subscription_error"
          => /\ client'.errors = Append(client.errors, "SubscriptionError")
             /\ client'.subs = client.subs]_vars

\* the second of two subscribe requests was answered with an error: its
\* record is gone, the error was reported once, and the first subscription
\* is still Current
C38_Witness ==
  /\ client.call = "reply" /\ ~client.ok /\ client.exit = "none"
  /\ client.errors = <<"SubscribeError">>
  /\ client.subs[1] = NoSub /\ client.subs[2].status = "Current"
  /\ client.request_id = 2

\* ------------------------------------------------------------------ C39
\* C39: client lifecycle.  The state changes only from Stopped to Running (in
\* start), from Running to PendingStopped (in stop) and from PendingStopped to
\* Stopped (in the read handler that was aborted); publish, subscribe_channel
\* and unsubscribe go through only on a Running client; and a client that is
\* Stopped has no subscription record.
C39_Lifecycle ==
  [][/\ client'.state # client.state =>
          <<client.state, client'.state, client'.call>> \in
            {<<"Stopped", "Running", "start">>,
             <<"Running", "PendingStopped", "stop">>,
             <<"PendingStopped", "Stopped", "read_aborted">>}
     /\ (client'.call \in {"publish", "subscribe", "unsubscribe"}
           /\ client'.exit = "none") => client.state = "Running"
     /\ client'.state = "Stopped" =>
          \A c \in Channels : client'.subs[c] = NoSub]_vars

\* ------------------------------------------------------------------ C40
HeadersWritten(w) == Cardinality({i \in 1..Len(w) : w[i] = "header"})

\* C40: write ordering of the mkv sink.  Every frame in the file comes after
\* the header; a frame that arrives before any metadata is not written and
\* on_next still ends with request(1); and the sink creates at most one
\* stream and writes at most one header, however many metadata packets it
\* is given.
C40_MkvWriteOrdering ==
  [][/\ \A i \in 1..Len(mkv'.written) :
          mkv'.written[i] = "frame" =>
            \E j \in 1..(i - 1) : mkv'.written[j] = "header"
     /\ (mkv'.frames = mkv.frames + 1 /\ mkv.metas = 0) =>
          /\ mkv'.written = mkv.written
          /\ mkv'.requests = mkv.requests + 1
          /\ mkv'.exit = "none"
     /\ mkv'.streams <= 1
     /\ HeadersWritten(mkv'.written) <= 1]_vars

C40_Witness ==
  /\ mkv.exit = "none" /\ mkv.metas = 2 /\ mkv.frames = 2 /\ mkv.dropped = 1
  /\ mkv.written = <<"header", "frame">>
  /\ mkv.requests = 5 /\ mkv.streams = 1

====
